---------------------------- MODULE Spec2Model ----------------------------
(***************************************************************************)
(* Chooser-option pricing library (src/src/models/bsm_chooser.py) as a     *)
(* state machine: a caller invokes one library function at a time with     *)
(* arguments drawn from bounded sets; the whole call is one action and its *)
(* arguments and outcome are recorded in `last`.                           *)
(*                                                                         *)
(* float64 values are modelled as fixed-point numbers with SCALE units per *)
(* 1.0, plus the IEEE special values NaN, +inf and -inf, with numpy's      *)
(* non-raising semantics for division by zero and invalid operations.      *)
(***************************************************************************)
EXTENDS Integers, Sequences, FiniteSets, TLC

VARIABLES
    pc,          \* "idle": no call in progress; "done": `last` holds a finished call
    last,        \* the finished call: [op, args, out]
    prev,        \* an earlier price_chooser_mc call kept by the caller, or NoCall
    frames,      \* the frame of each concurrent price_chooser_mc invocation
    files,       \* the files under data/: a table by path, for the paths that exist
    gens         \* the generator objects on the heap: the stream state of each

vars == <<pc, last, prev, frames, gens, files>>

-----------------------------------------------------------------------------
(* float64 arithmetic *)

\* fixed-point units per 1.0
SCALE == 100

Fin(n) == [k |-> "fin", v |-> n]
NaN == [k |-> "nan", v |-> 0]
PInf == [k |-> "pinf", v |-> 0]
NInf == [k |-> "ninf", v |-> 0]

IsNaN(x) == x.k = "nan"
IsFin(x) == x.k = "fin"
IsInf(x) == x.k \in {"pinf", "ninf"}

Abs(n) == IF n < 0 THEN -n ELSE n
Sgn(n) == IF n < 0 THEN -1 ELSE IF n > 0 THEN 1 ELSE 0

\* sign of a non-NaN float: -1, 0 or 1
FSign(x) == IF x.k = "pinf" THEN 1 ELSE IF x.k = "ninf" THEN -1 ELSE Sgn(x.v)

SignedInf(s) == IF s < 0 THEN NInf ELSE PInf

\* a / b rounded to the nearest integer, ties away from zero (b # 0)
RDiv(a, b) == Sgn(a) * Sgn(b) * ((2 * Abs(a) + Abs(b)) \div (2 * Abs(b)))

FNeg(x) ==
    CASE x.k = "fin" -> Fin(-x.v)
      [] x.k = "pinf" -> NInf
      [] x.k = "ninf" -> PInf
      [] OTHER -> NaN

FAdd(x, y) ==
    IF IsNaN(x) \/ IsNaN(y) THEN NaN
    ELSE IF IsInf(x) /\ IsInf(y) THEN (IF x.k = y.k THEN x ELSE NaN)
    ELSE IF IsInf(x) THEN x
    ELSE IF IsInf(y) THEN y
    ELSE Fin(x.v + y.v)

FSub(x, y) == FAdd(x, FNeg(y))

FMul(x, y) ==
    IF IsNaN(x) \/ IsNaN(y) THEN NaN
    ELSE IF IsInf(x) \/ IsInf(y)
         THEN (IF FSign(x) * FSign(y) = 0 THEN NaN ELSE SignedInf(FSign(x) * FSign(y)))
    ELSE Fin(RDiv(x.v * y.v, SCALE))

\* numpy float64 division: x/0 is +-inf, 0/0 and inf/inf are NaN, nothing is raised
FDiv(x, y) ==
    IF IsNaN(x) \/ IsNaN(y) THEN NaN
    ELSE IF IsInf(x) THEN (IF IsInf(y) THEN NaN
                           ELSE SignedInf(FSign(x) * (IF y.v < 0 THEN -1 ELSE 1)))
    ELSE IF IsInf(y) THEN Fin(0)
    ELSE IF y.v = 0 THEN (IF x.v = 0 THEN NaN ELSE SignedInf(Sgn(x.v)))
    ELSE Fin(RDiv(x.v * SCALE, y.v))

\* x > y; False when either is NaN
FGt(x, y) ==
    IF IsNaN(x) \/ IsNaN(y) THEN FALSE
    ELSE IF x.k = "pinf" THEN y.k # "pinf"
    ELSE IF x.k = "ninf" THEN FALSE
    ELSE IF y.k = "pinf" THEN FALSE
    ELSE IF y.k = "ninf" THEN TRUE
    ELSE x.v > y.v

\* x <= y; False when either is NaN
FLe(x, y) == ~IsNaN(x) /\ ~IsNaN(y) /\ ~FGt(x, y)

FAbs(x) == IF IsNaN(x) THEN NaN ELSE IF IsInf(x) THEN PInf ELSE Fin(Abs(x.v))

\* np.maximum: NaN propagates
NpMaximum(x, y) == IF IsNaN(x) \/ IsNaN(y) THEN NaN ELSE IF FGt(y, x) THEN y ELSE x

\* Python's builtin max(x, y): x unless y > x
PyMax(x, y) == IF FGt(y, x) THEN y ELSE x

RECURSIVE ISqrtIter(_, _)
ISqrtIter(n, x) ==
    LET y == (x + n \div x) \div 2
    IN IF y >= x THEN x ELSE ISqrtIter(n, y)

\* floor of the square root of n >= 0
ISqrt(n) == IF n = 0 THEN 0 ELSE ISqrtIter(n, n)

\* np.sqrt: NaN for a negative argument (a warning, nothing raised)
FSqrt(x) ==
    CASE x.k = "nan" -> NaN
      [] x.k = "pinf" -> PInf
      [] x.k = "ninf" -> NaN
      [] OTHER -> IF x.v < 0 THEN NaN ELSE Fin(ISqrt(x.v * SCALE))

\* number of Taylor terms of the fixed-point exponential and logarithm
SeriesTerms == 10

RECURSIVE ExpSeries(_, _, _)
ExpSeries(x, term, i) ==
    IF i > SeriesTerms \/ term = 0 THEN 0
    ELSE term + ExpSeries(x, RDiv(term * x, SCALE * i), i + 1)

\* exp of a fixed-point x; exp(0) = 1 exactly, exp(x) > 0 inside the model's range
ExpFix(x) ==
    IF x >= 0 THEN ExpSeries(x, SCALE, 1)
    ELSE RDiv(SCALE * SCALE, ExpSeries(-x, SCALE, 1))

FExp(x) ==
    CASE x.k = "nan" -> NaN
      [] x.k = "pinf" -> PInf
      [] x.k = "ninf" -> Fin(0)
      [] OTHER -> Fin(ExpFix(x.v))

RECURSIVE AtanhSeries(_, _, _)
AtanhSeries(z2, pow, i) ==
    IF i > SeriesTerms \/ pow = 0 THEN 0
    ELSE RDiv(pow, 2 * i - 1) + AtanhSeries(z2, RDiv(pow * z2, 10 * SCALE), i + 1)

\* ln of a fixed-point x > 0 as 2*atanh((x-1)/(x+1)), on a 10x finer grid; ln(1) = 0
LnFix(x) ==
    LET z == RDiv((x - SCALE) * 10 * SCALE, x + SCALE)
        z2 == RDiv(z * z, 10 * SCALE)
    IN RDiv(2 * AtanhSeries(z2, z, 1), 10)

\* np.log: -inf at 0, NaN below 0 (warnings, nothing raised)
FLog(x) ==
    CASE x.k = "nan" -> NaN
      [] x.k = "pinf" -> PInf
      [] x.k = "ninf" -> NaN
      [] OTHER -> IF x.v < 0 THEN NaN ELSE IF x.v = 0 THEN NInf ELSE Fin(LnFix(x.v))

\* standard normal cdf at 0, 0.25, ..., 3.0 (in 1/SCALE), 1 beyond
CdfTable == <<50, 60, 69, 77, 84, 89, 93, 96, 98, 99, 99, 100, 100>>

CdfPos(x) ==
    LET step == SCALE \div 4
        i == x \div step
    IN IF i + 2 > Len(CdfTable) THEN SCALE
       ELSE CdfTable[i + 1]
            + RDiv((CdfTable[i + 2] - CdfTable[i + 1]) * (x - i * step), step)

\* scipy.stats.norm.cdf
NormCdf(x) ==
    CASE x.k = "nan" -> NaN
      [] x.k = "pinf" -> Fin(SCALE)
      [] x.k = "ninf" -> Fin(0)
      [] OTHER -> IF x.v >= 0 THEN Fin(CdfPos(x.v)) ELSE Fin(SCALE - CdfPos(-x.v))

-----------------------------------------------------------------------------
(* numpy arrays: sequences of floats; a scalar operand is a one-element array, *)
(* which numpy broadcasts against an n-element array the same way              *)

BroadcastLen(a, b) == IF Len(a) = 1 THEN Len(b) ELSE Len(a)
At(a, i) == IF Len(a) = 1 THEN a[1] ELSE a[i]

\* a[lo] + ... + a[hi], added pairwise
RECURSIVE SumRange(_, _, _)
SumRange(a, lo, hi) ==
    IF hi < lo THEN Fin(0)
    ELSE IF lo = hi THEN a[lo]
    ELSE FAdd(SumRange(a, lo, (lo + hi) \div 2), SumRange(a, (lo + hi) \div 2 + 1, hi))

SumTo(a, n) == SumRange(a, 1, n)

\* ndarray.mean / np.mean: NaN for an empty array (a warning, nothing raised)
NpMean(a) == IF Len(a) = 0 THEN NaN ELSE FDiv(SumTo(a, Len(a)), Fin(Len(a) * SCALE))

\* ndarray.std: population standard deviation (ddof = 0)
NpStd(a) ==
    LET m == NpMean(a)
        sq == [i \in 1..Len(a) |-> FMul(FSub(a[i], m), FSub(a[i], m))]
    IN FSqrt(NpMean(sq))

\* faulty variant: counts the False entries
BoolMeanOfFalse(b) == NpMean([i \in 1..Len(b) |-> IF b[i] THEN Fin(0) ELSE Fin(SCALE)])

\* mean of a boolean array: True counts 1.0
BoolMean(b) == NpMean([i \in 1..Len(b) |-> IF b[i] THEN Fin(SCALE) ELSE Fin(0)])

-----------------------------------------------------------------------------
(* outcomes of a call *)

Ok(v) == [err |-> "none", val |-> v]
Raise(e) == [err |-> e, val |-> <<>>]

-----------------------------------------------------------------------------
(* numpy.random.Generator: a state in 0..RngMod-1; every draw advances it *)

RngMod == 8

\* seed of a call: <<>> is None, <<n>> is the integer n
NoSeed == <<>>

SeedState(n) == (3 * n + 1) % RngMod

\* faulty variant: ignores the seed, as a generator left unseeded would
default_rng_unseeded(seed, entropy) == entropy

\* np.random.default_rng(seed): fresh OS entropy when seed is None
default_rng(seed, entropy) == IF seed = NoSeed THEN entropy ELSE SeedState(seed[1])

NextState(g) == (5 * g + 3) % RngMod

RECURSIVE Advance(_, _)
Advance(g, n) == IF n = 0 THEN g ELSE NextState(Advance(g, n - 1))

\* the standard normals the generator's states map to (in 1/SCALE)
ZTable == <<-150, 50, 0, 100, -50, 150, -100, 25>>

\* rng.standard_normal(n) from state g: the n draws, in order (n >= 0)
standard_normal(g, n) == [i \in 1..n |-> Fin(ZTable[Advance(g, i) + 1])]

\* faulty variant: a draw that leaves the generator where it was, as a generator
\* seeded anew for every batch would
DrawNoAdvance(g, n) == [z |-> standard_normal(g, n), rng |-> g]

\* one call of rng.standard_normal(n): the normals drawn and the generator after them
Draw(g, n) == [z |-> standard_normal(g, n), rng |-> Advance(g, n)]

\* optional argument z of simulate_gbm_paths
NoZ == [given |-> FALSE, arr |-> <<>>]
SomeZ(a) == [given |-> TRUE, arr |-> a]

HALF == Fin(SCALE \div 2)

\* faulty variant: draws from the seed although z is supplied
NormalsDrawn(z, seed, n_paths, entropy) ==
    standard_normal(default_rng(seed, entropy), n_paths)

\* the normals simulate_gbm_paths uses: z, or n_paths draws of a new generator when
\* z is None
Normals(z, seed, n_paths, entropy) ==
    IF z.given THEN z.arr ELSE standard_normal(default_rng(seed, entropy), n_paths)

\* faulty variant: leaves sqrt(dt) out of the diffusion term
DiffusionUnscaled(sigma, dt, z) == FMul(sigma, z)

\* diffusion = sigma * sqrt(dt) * z, one element
Diffusion(sigma, dt, z) == FMul(FMul(sigma, FSqrt(dt)), z)

\* simulate_gbm_paths(s0, r, q, sigma, dt, n_paths, seed, z)
simulate_gbm_paths(s0, r, q, sigma, dt, n_paths, seed, z, entropy) ==
    IF ~z.given /\ n_paths < 0 THEN Raise("ValueError")
    ELSE
    LET zz == Normals(z, seed, n_paths, entropy)
        drift == FMul(FSub(FSub(r, q), FMul(HALF, FMul(sigma, sigma))), dt)
        diffusion == [i \in 1..Len(zz) |-> Diffusion(sigma, dt, zz[i])]
    IN Ok([i \in 1..BroadcastLen(s0, zz) |->
              FMul(At(s0, i), FExp(FAdd(drift, diffusion[i])))])

-----------------------------------------------------------------------------
(* decision rules and payoffs *)

\* faulty variant: lets a tie choose call
IsCallGe(s, threshold) == ~FGt(threshold, s) /\ ~IsNaN(s) /\ ~IsNaN(threshold)

\* s_t1 > threshold, elementwise
IsCall(s, threshold) == FGt(s, threshold)

\* faulty variant: pays the better of the two sides
BranchPayoffBest(is_call, call_payoff, put_payoff) == NpMaximum(call_payoff, put_payoff)

\* np.where(is_call, call_payoff, put_payoff), one element
BranchPayoff(is_call, call_payoff, put_payoff) ==
    IF is_call THEN call_payoff ELSE put_payoff

PayoffsFor(is_call, s_t2, k) ==
    [i \in 1..Len(is_call) |->
        BranchPayoff(is_call[i],
                     NpMaximum(FSub(s_t2[i], k), Fin(0)),
                     NpMaximum(FSub(k, s_t2[i]), Fin(0)))]

\* chooser_payoffs(s_t1, s_t2, k) -> (choices, payoffs)
chooser_payoffs(s_t1, s_t2, k) ==
    LET is_call == [i \in 1..Len(s_t1) |-> IsCall(s_t1[i], k)]
    IN [choices |-> is_call, payoffs |-> PayoffsFor(is_call, s_t2, k)]

\* faulty variant: uses the raw strike as threshold
ParityThresholdRaw(k, r, q, tau) == k

\* faulty variant: leaves the dividend yield out of the adjustment
ParityThresholdNoYield(k, r, q, tau) == FMul(k, FExp(FMul(FNeg(r), tau)))

\* k_adj = k * exp(-(r - q) * tau)
ParityThreshold(k, r, q, tau) == FMul(k, FExp(FMul(FNeg(FSub(r, q)), tau)))

\* chooser_payoffs_proper(s_t1, s_t2, k, r, q, sigma, tau) -> (choices, payoffs)
chooser_payoffs_proper(s_t1, s_t2, k, r, q, sigma, tau) ==
    LET k_adj == ParityThreshold(k, r, q, tau)
        is_call == [i \in 1..Len(s_t1) |-> IsCall(s_t1[i], k_adj)]
    IN [choices |-> is_call, payoffs |-> PayoffsFor(is_call, s_t2, k)]

-----------------------------------------------------------------------------
(* Monte Carlo pricer *)

\* faulty variant: period 2 starts again from the initial spot
Period2SpotInitial(s0, s_t1) == <<s0>>

\* the spot period 2 starts from: the output of period 1
Period2Spot(s0, s_t1) == s_t1

\* faulty variant: reports the price without its standard error
PricerResultNoSe(price, mean_payoff, std_payoff, se, call_ratio, s_t1, s_t2, choices, payoffs, discount) ==
    [price |-> price, mean_payoff |-> mean_payoff, std_payoff |-> std_payoff,
     call_ratio |-> call_ratio, s_t1 |-> s_t1, s_t2 |-> s_t2, choices |-> choices,
     payoffs |-> payoffs, discount |-> discount]

\* the dict price_chooser_mc returns
PricerResult(price, mean_payoff, std_payoff, se, call_ratio, s_t1, s_t2, choices, payoffs, discount) ==
    [price |-> price, mean_payoff |-> mean_payoff, std_payoff |-> std_payoff,
     se |-> se, call_ratio |-> call_ratio, s_t1 |-> s_t1, s_t2 |-> s_t2,
     choices |-> choices, payoffs |-> payoffs, discount |-> discount]

\* faulty variant: no discounting
DiscountNone(r, t2) == Fin(SCALE)

\* discount = exp(-r * t2)
Discount(r, t2) == FExp(FMul(FNeg(r), t2))

\* price_chooser_mc from tau = t2 - t1 on, given the two batches of normals;
\* a is the record of the call's arguments
PricerBody(a, z1, z2) ==
    LET tau == FSub(a.t2, a.t1)
        s_t1 == simulate_gbm_paths(<<a.s0>>, a.r, a.q, a.sigma, a.t1, a.n_paths,
                                   NoSeed, SomeZ(z1), 0).val
        s_t2 == simulate_gbm_paths(Period2Spot(a.s0, s_t1), a.r, a.q, a.sigma, tau,
                                   a.n_paths, NoSeed, SomeZ(z2), 0).val
        cp == IF a.use_proper_rule
              THEN chooser_payoffs_proper(s_t1, s_t2, a.k, a.r, a.q, a.sigma, tau)
              ELSE chooser_payoffs(s_t1, s_t2, a.k)
        discount == Discount(a.r, a.t2)
        pv_payoffs == [i \in 1..Len(cp.payoffs) |-> FMul(discount, cp.payoffs[i])]
        mean_pv == NpMean(pv_payoffs)
        std_pv == NpStd(pv_payoffs)
        se == FDiv(std_pv, FSqrt(Fin(a.n_paths * SCALE)))
    IN PricerResult(mean_pv, NpMean(cp.payoffs), NpStd(cp.payoffs), se,
                    BoolMean(cp.choices), s_t1, s_t2, cp.choices, cp.payoffs, discount)

\* price_chooser_mc(s0, k, r, q, sigma, t1, t2, n_paths, seed, use_proper_rule);
\* a is the record of these arguments; standard_normal raises on a negative count
price_chooser_mc(a, entropy) ==
    IF a.n_paths < 0 THEN Raise("ValueError")
    ELSE
    LET rng == default_rng(a.seed, entropy)
        d1 == Draw(rng, a.n_paths)
        d2 == Draw(d1.rng, a.n_paths)
    IN Ok(PricerBody(a, d1.z, d2.z))

-----------------------------------------------------------------------------
(* analytic prices *)

\* faulty variant: takes the intrinsic branch only strictly past expiry
AtOrPastExpiryStrict(t) == FGt(Fin(0), t)

\* t <= 0
AtOrPastExpiry(t) == FLe(t, Fin(0))

\* (np.log(s / k) + (r - q + 0.5 * sigma ** 2) * t) / (sigma * np.sqrt(t)), k # 0
D1(s, k, r, q, sigma, t) ==
    FDiv(FAdd(FLog(FDiv(s, k)),
              FMul(FAdd(FSub(r, q), FMul(HALF, FMul(sigma, sigma))), t)),
         FMul(sigma, FSqrt(t)))

\* faulty variant: pays the distance to the strike on either side
IntrinsicAbs(x) == FAbs(x)

\* max(x, 0.0), the value at or past expiry of an option x in the money
Intrinsic(x) == PyMax(x, Fin(0))

\* bsm_call(s, k, r, q, sigma, t); Python's s / k raises on k = 0
bsm_call(s, k, r, q, sigma, t) ==
    IF AtOrPastExpiry(t) THEN Ok(Intrinsic(FSub(s, k)))
    ELSE IF k = Fin(0) THEN Raise("ZeroDivisionError")
    ELSE
    LET d1 == D1(s, k, r, q, sigma, t)
        d2 == FSub(d1, FMul(sigma, FSqrt(t)))
    IN Ok(FSub(FMul(FMul(s, FExp(FMul(FNeg(q), t))), NormCdf(d1)),
               FMul(FMul(k, FExp(FMul(FNeg(r), t))), NormCdf(d2))))

\* faulty variant: leaves the strike of the put undiscounted
bsm_put_undiscounted(s, k, r, q, sigma, t) ==
    IF AtOrPastExpiry(t) THEN Ok(PyMax(FSub(k, s), Fin(0)))
    ELSE IF k = Fin(0) THEN Raise("ZeroDivisionError")
    ELSE
    LET d1 == D1(s, k, r, q, sigma, t)
        d2 == FSub(d1, FMul(sigma, FSqrt(t)))
    IN Ok(FSub(FMul(k, NormCdf(FNeg(d2))),
               FMul(FMul(s, FExp(FMul(FNeg(q), t))), NormCdf(FNeg(d1)))))

\* bsm_put(s, k, r, q, sigma, t)
bsm_put(s, k, r, q, sigma, t) ==
    IF AtOrPastExpiry(t) THEN Ok(Intrinsic(FSub(k, s)))
    ELSE IF k = Fin(0) THEN Raise("ZeroDivisionError")
    ELSE
    LET d1 == D1(s, k, r, q, sigma, t)
        d2 == FSub(d1, FMul(sigma, FSqrt(t)))
    IN Ok(FSub(FMul(FMul(k, FExp(FMul(FNeg(r), t))), NormCdf(FNeg(d2))),
               FMul(FMul(s, FExp(FMul(FNeg(q), t))), NormCdf(FNeg(d1)))))

\* rubinstein_chooser(s, k, r, q, sigma, t1, t2): no guard on sigma, t1 or t2
rubinstein_chooser(s, k, r, q, sigma, t1, t2) ==
    IF k = Fin(0) THEN Raise("ZeroDivisionError")
    ELSE
    LET d1 == D1(s, k, r, q, sigma, t2)
        d2 == FSub(d1, FMul(sigma, FSqrt(t2)))
        y1 == FDiv(FAdd(FAdd(FLog(FDiv(s, k)), FMul(FSub(r, q), t2)),
                        FMul(FMul(HALF, FMul(sigma, sigma)), t1)),
                   FMul(sigma, FSqrt(t1)))
        y2 == FSub(y1, FMul(sigma, FSqrt(t1)))
        sq == FMul(s, FExp(FMul(FNeg(q), t2)))
        kr == FMul(k, FExp(FMul(FNeg(r), t2)))
    IN Ok(FAdd(FSub(FSub(FMul(sq, NormCdf(d1)), FMul(kr, NormCdf(d2))),
                    FMul(sq, NormCdf(FNeg(y1)))),
               FMul(kr, NormCdf(FNeg(y2)))))

-----------------------------------------------------------------------------
(* error metrics; the series of compute_error_metrics are in units of 1e-9, *)
(* so that eps = 1e-8 lies on the grid                                      *)

EPS == 10

\* faulty variant: keeps a denominator equal to eps
AboveEpsGe(y) == ~IsNaN(y) /\ ~FGt(Fin(EPS), FAbs(y))

\* np.abs(y_true) > eps, one element
AboveEps(y) == FGt(FAbs(y), Fin(EPS))

\* a[mask]: the elements of a[1..n] whose mask is True, in order
RECURSIVE Compress(_, _, _)
Compress(a, mask, n) ==
    IF n = 0 THEN <<>>
    ELSE IF mask[n] THEN Append(Compress(a, mask, n - 1), a[n])
    ELSE Compress(a, mask, n - 1)

\* faulty variant: squares the mean error instead of averaging the squares
RmseOfMeanError(err) == FSqrt(FMul(NpMean(err), NpMean(err)))

\* rmse = np.sqrt(np.mean(err ** 2))
Rmse(err) == FSqrt(NpMean([i \in 1..Len(err) |-> FMul(err[i], err[i])]))

\* compute_error_metrics(y_true, y_pred), series of equal length
compute_error_metrics(y_true, y_pred) ==
    LET n == Len(y_true)
        err == [i \in 1..n |-> FSub(y_pred[i], y_true[i])]
        mae == NpMean([i \in 1..n |-> FAbs(err[i])])
        rmse == Rmse(err)
        mask == [i \in 1..n |-> AboveEps(y_true[i])]
        em == Compress(err, mask, n)
        tm == Compress(y_true, mask, n)
        mape == IF \E i \in 1..n : mask[i]
                THEN NpMean([i \in 1..Len(em) |-> FAbs(FDiv(em[i], tm[i]))])
                ELSE NaN
    IN [mae |-> mae, rmse |-> rmse, mape |-> mape]

-----------------------------------------------------------------------------
(* realized-outcome evaluator *)

\* faulty variant: compares with the raw strike under both rules
RealizedThresholdRaw(k, r, q, tau, use_proper_rule) == k

\* threshold = k * np.exp(-(r - q) * tau) if use_proper_rule else k
RealizedThreshold(k, r, q, tau, use_proper_rule) ==
    IF use_proper_rule THEN ParityThreshold(k, r, q, tau) ELSE k

\* realized_proxy_pv(s_t1_realized, s_t2_realized, k, r, t2, use_proper_rule, q, tau)
realized_proxy_pv(s_t1_realized, s_t2_realized, k, r, t2, use_proper_rule, q, tau) ==
    LET threshold == RealizedThreshold(k, r, q, tau, use_proper_rule)
        is_call == FGt(s_t1_realized, threshold)
        payoff == IF is_call THEN PyMax(FSub(s_t2_realized, k), Fin(0))
                  ELSE PyMax(FSub(k, s_t2_realized), Fin(0))
    IN FMul(FExp(FMul(FNeg(r), t2)), payoff)

-----------------------------------------------------------------------------
(* volatility regimes *)

\* default of vix_regime_label's threshold, 30.0
DefaultVixThreshold == 3000

\* faulty variant: puts the boundary in the high regime
HighVolGe(vix_value, threshold) ==
    ~IsNaN(vix_value) /\ ~IsNaN(threshold) /\ ~FGt(threshold, vix_value)

\* vix_value > threshold
HighVol(vix_value, threshold) == FGt(vix_value, threshold)

\* vix_regime_label(vix_value, threshold)
vix_regime_label(vix_value, threshold) ==
    IF HighVol(vix_value, threshold) THEN "high_vol" ELSE "normal_vol"

\* vix_regime_label(vix_value): the threshold left at its default
vix_regime_label_default(vix_value) ==
    vix_regime_label(vix_value, Fin(DefaultVixThreshold))

\* regime labels in Python's string order; MissingLabel is a NaN/None cell
RegimeOrder == <<"high_vol", "low_vol", "normal_vol">>
MissingLabel == "nan"
LabelRank(l) == CHOOSE i \in 1..Len(RegimeOrder) : RegimeOrder[i] = l

\* df.groupby(regime_col): the distinct labels, ascending, missing ones dropped
RECURSIVE KeysUpTo(_, _)
KeysUpTo(df, i) ==
    IF i = 0 THEN <<>>
    ELSE LET rest == KeysUpTo(df, i - 1)
             l == RegimeOrder[i]
         IN IF \E j \in 1..Len(df) : df[j].regime = l THEN Append(rest, l) ELSE rest

GroupKeys(df) == KeysUpTo(df, Len(RegimeOrder))

\* faulty variant: hands every group the whole table
GroupRowsAll(df, l, n) == SubSeq(df, 1, n)

\* the rows of df[1..n] of one group, in order
RECURSIVE GroupRows(_, _, _)
GroupRows(df, l, n) ==
    IF n = 0 THEN <<>>
    ELSE IF df[n].regime = l THEN Append(GroupRows(df, l, n - 1), df[n])
    ELSE GroupRows(df, l, n - 1)

\* DataFrame.sort_values("regime"): stable insertion of row x into sorted rows
RECURSIVE InsertRow(_, _)
InsertRow(rows, x) ==
    IF rows = <<>> THEN <<x>>
    ELSE IF LabelRank(rows[Len(rows)].regime) <= LabelRank(x.regime)
         THEN Append(rows, x)
    ELSE Append(InsertRow(SubSeq(rows, 1, Len(rows) - 1), x), rows[Len(rows)])

RECURSIVE SortValues(_, _)
SortValues(rows, n) ==
    IF n = 0 THEN <<>> ELSE InsertRow(SortValues(rows, n - 1), rows[n])

\* summarize_metrics_by_regime(df, true_col, pred_col, regime_col); a frame built
\* from no rows has no "regime" column, and sort_values raises KeyError
summarize_metrics_by_regime(df) ==
    LET keys == GroupKeys(df)
        rows == [g \in 1..Len(keys) |->
                   LET sub == GroupRows(df, keys[g], Len(df))
                       metrics == compute_error_metrics(
                                      [i \in 1..Len(sub) |-> sub[i].true],
                                      [i \in 1..Len(sub) |-> sub[i].pred])
                   IN [regime |-> keys[g], count |-> Len(sub), mae |-> metrics.mae,
                       rmse |-> metrics.rmse, mape |-> metrics.mape]]
    IN IF Len(keys) = 0 THEN Raise("KeyError")
       ELSE Ok(SortValues(rows, Len(rows)))

-----------------------------------------------------------------------------
(* data collection and preprocessing. A file is a table: a function from its    *)
(* column names to columns, a column being a function from dates to values. An  *)
(* optional value is <<>> (None) or <<x>>. Rates are in units of 1e-4, so that  *)
(* a percentage of 2.46 is 24600 and the decimal 0.0246 is 246                  *)

StockFile == "raw/yahoo_finance/JPM_daily_ohlcv"
VixFile == "raw/yahoo_finance/VIX_daily"
DividendsFile == "raw/yahoo_finance/JPM_dividends"
CombinedFile == "raw/fred/treasury_rates_combined"
ProcessedFile == "processed/processed_dataset"

\* RISK_FREE_RATE_SERIES, TREASURY_10Y_SERIES, FED_FUNDS_SERIES
FredSeries == {"DGS3MO", "DGS10", "FEDFUNDS"}

SeriesFile(series_id) ==
    CASE series_id = "DGS3MO" -> "raw/fred/DGS3MO"
      [] series_id = "DGS10" -> "raw/fred/DGS10"
      [] OTHER -> "raw/fred/FEDFUNDS"

NoFiles == [path \in {} |-> <<>>]

\* to_csv and to_parquet of one table under one base name
WriteFile(fs, path, table) ==
    [f \in DOMAIN fs \cup {path} |-> IF f = path THEN table ELSE fs[f]]

\* what the FRED API returns for a series on a date, in percent
FredObservation(series_id, d) ==
    CASE series_id = "DGS3MO" -> Fin(15000 + 100 * d)
      [] series_id = "DGS10" -> Fin(24600 + 100 * d)
      [] OTHER -> Fin(18000 + 100 * d)

\* what Yahoo returns for the ticker and for ^VIX on a date
StockClose(d) == Fin(10000 + 100 * d)
VixClose(d) == Fin(2000 - 100 * d)

\* FREDCollector.collect_all_series: every series got is kept in results and saved
\* under its own name with the single column "value"
RECURSIVE SaveEach(_, _, _)
SaveEach(fs, got, dates) ==
    IF got = {} THEN fs
    ELSE LET s == CHOOSE x \in got : TRUE
         IN SaveEach(WriteFile(fs, SeriesFile(s),
                               [c \in {"value"} |-> [d \in dates |-> FredObservation(s, d)]]),
                     got \ {s}, dates)

\* FREDCollector.run: got is the set of series the API returned data for; the
\* combined file is written when more than one series was collected
FredRun(fs, got, dates) ==
    LET saved == SaveEach(fs, got, dates)
    IN IF Cardinality(got) > 1
       THEN WriteFile(saved, CombinedFile,
                      [s \in got |-> [d \in dates |-> FredObservation(s, d)]])
       ELSE saved

\* YahooFinanceCollector.run: each table is saved as soon as it is collected, an
\* empty download raises and ends the run; ok is the value run returns
YahooRun(fs, outcome, dates) ==
    LET stock == WriteFile(fs, StockFile, [c \in {"Close"} |-> [d \in dates |-> StockClose(d)]])
        vix == WriteFile(stock, VixFile, [c \in {"Close"} |-> [d \in dates |-> VixClose(d)]])
        div == WriteFile(vix, DividendsFile,
                         [c \in {"Dividend"} |-> [d \in {1} |-> Fin(100)]])
    IN CASE outcome = "no_stock" -> [fs |-> fs, ok |-> FALSE]
         [] outcome = "no_vix" -> [fs |-> stock, ok |-> FALSE]
         [] outcome = "no_dividends" -> [fs |-> vix, ok |-> TRUE]
         [] OTHER -> [fs |-> div, ok |-> TRUE]

\* collect_all.main: Yahoo first, then FRED when FRED_API_KEY is set; returns the
\* files afterwards and the exit code
collect_all(fs, outcome, dates, api_key, got, fred_dates) ==
    LET yahoo == YahooRun(fs, outcome, dates)
    IN IF api_key
       THEN [fs |-> FredRun(yahoo.fs, got, fred_dates),
             code |-> IF yahoo.ok THEN 0 ELSE 1]
       ELSE [fs |-> yahoo.fs, code |-> IF yahoo.ok THEN 0 ELSE 1]

\* _load_file: parquet or csv of the base name, FileNotFoundError when neither exists
load_file(fs, path) ==
    IF path \in DOMAIN fs THEN Ok(fs[path]) ELSE Raise("FileNotFoundError")

\* load_fred_data
load_fred_data(fs) == load_file(fs, CombinedFile)

\* load_raw_data: load_yahoo_data, then load_fred_data, whose error is not caught
load_raw_data(fs) ==
    LET stock == load_file(fs, StockFile)
        vix == load_file(fs, VixFile)
        treasury == load_fred_data(fs)
    IN IF stock.err # "none" THEN stock
       ELSE IF vix.err # "none" THEN vix
       ELSE IF treasury.err # "none" THEN treasury
       ELSE Ok([stock |-> stock.val, vix |-> vix.val,
                dividends |-> IF DividendsFile \in DOMAIN fs
                              THEN <<fs[DividendsFile]>> ELSE <<>>,
                treasury |-> <<treasury.val>>])

\* the index of a table: the dates of its columns
IndexOf(table) == UNION {DOMAIN table[c] : c \in DOMAIN table}

\* Index.sort_values().unique(): the dates in ascending order
RECURSIVE SortedDates(_)
SortedDates(S) ==
    IF S = {} THEN <<>>
    ELSE LET m == CHOOSE x \in S : \A y \in S : y <= x
         IN Append(SortedDates(S \ {m}), m)

\* Series.reindex(base_index): NaN on a date the series does not have
Reindex(series, base_index) ==
    [i \in 1..Len(base_index) |->
        IF base_index[i] \in DOMAIN series THEN series[base_index[i]] ELSE NaN]

\* Series.ffill(), Series.bfill()
RECURSIVE Ffill(_, _)
Ffill(col, n) ==
    IF n = 0 THEN <<>>
    ELSE LET before == Ffill(col, n - 1)
         IN Append(before, IF IsNaN(col[n]) /\ n > 1 THEN before[n - 1] ELSE col[n])

RECURSIVE Bfill(_, _)
Bfill(col, n) ==
    IF n > Len(col) THEN <<>>
    ELSE LET after == Bfill(col, n + 1)
         IN <<IF IsNaN(col[n]) /\ n < Len(col) THEN after[1] ELSE col[n]>> \o after

\* default risk-free rate, 0.04
TreasuryDefault == 400

\* clean_and_align(data): the merged table, by its index and its columns Close,
\* vix_close and treasury_10y; treasury[treasury_col] raises KeyError when the table
\* has neither "DGS10" nor "value"
clean_and_align(data) ==
    LET base_index == SortedDates(IndexOf(data.stock) \cup IndexOf(data.vix))
        n == Len(base_index)
        close == Ffill(Reindex(data.stock["Close"], base_index), n)
        vix_close == Ffill(Reindex(data.vix["Close"], base_index), n)
        treasury_col == IF "DGS10" \in DOMAIN data.treasury[1] THEN "DGS10" ELSE "value"
        treasury_10y == Ffill(Reindex(data.treasury[1][treasury_col], base_index), n)
    IN IF data.treasury # <<>>
       THEN IF treasury_col \notin DOMAIN data.treasury[1] THEN Raise("KeyError")
            ELSE Ok([index |-> base_index, Close |-> close, vix_close |-> vix_close,
                     treasury_10y |-> [i \in 1..n |->
                                          FDiv(treasury_10y[i], Fin(100 * SCALE))]])
       ELSE Ok([index |-> base_index, Close |-> close, vix_close |-> vix_close,
                treasury_10y |-> [i \in 1..n |-> Fin(TreasuryDefault)]])

\* interpolate_missing on one column: after the forward fill of clean_and_align the
\* gaps left are leading ones, which take the first valid value; a column without any
\* value stays NaN
InterpolateColumn(col) == Bfill(Ffill(col, Len(col)), 1)

interpolate_missing(df) ==
    [index |-> df.index, Close |-> InterpolateColumn(df.Close),
     vix_close |-> InterpolateColumn(df.vix_close),
     treasury_10y |-> InterpolateColumn(df.treasury_10y)]

\* run_pipeline: load, clean and align, interpolate; the feature and outlier steps add
\* and clip feature columns only and the trimming keeps every row of a table shorter
\* than half a year, so the columns above are what is saved and returned
run_pipeline(fs) ==
    LET data == load_raw_data(fs)
        df == clean_and_align(data.val)
    IN IF data.err # "none" THEN data
       ELSE IF df.err # "none" THEN df
       ELSE Ok(interpolate_missing(df.val))

\* preprocess.main: 0 when run_pipeline returns, 1 on any exception
PreprocessExitCode(result) == IF result.err = "none" THEN 0 ELSE 1

-----------------------------------------------------------------------------
(* feature engineering: a table is a record of columns, each a sequence with one *)
(* value per row, rows in date order                                             *)

TRADING_DAYS == 252

\* the non-NaN values among col[lo..hi]
RECURSIVE ValidIn(_, _, _)
ValidIn(col, lo, hi) ==
    IF hi < lo THEN <<>>
    ELSE IF lo = hi THEN (IF IsNaN(col[lo]) THEN <<>> ELSE <<col[lo]>>)
    ELSE ValidIn(col, lo, (lo + hi) \div 2) \o ValidIn(col, (lo + hi) \div 2 + 1, hi)

\* first row of the window of w rows that ends at row t
WindowStart(t, w) == IF t - w + 1 < 1 THEN 1 ELSE t - w + 1

\* faulty variant: center=True, the window reaches w // 2 rows past row t
WindowEndCentred(n, t, w) == IF t + w \div 2 > n THEN n ELSE t + w \div 2

\* last row of the window of row t, in a column of n rows: rolling() is right-aligned
WindowEnd(n, t, w) == t

\* Series.rolling(w, min_periods): the valid observations of the window of row t
Rolling(col, t, w) == ValidIn(col, WindowStart(t, w), WindowEnd(Len(col), t, w))

\* Series.shift(periods)[t]: the value periods rows earlier, NaN before the first row
Shift(col, t, periods) == IF t - periods < 1 THEN NaN ELSE col[t - periods]

\* Series.replace(0, np.nan), one element
ReplaceZero(x) == IF x = Fin(0) THEN NaN ELSE x

\* Series.fillna(0), one element
FillNa0(x) == IF IsNaN(x) THEN Fin(0) ELSE x

\* sample standard deviation (ddof = 1) of a sequence of valid observations
SampleStd(obs) ==
    LET n == Len(obs)
        m == NpMean(obs)
        sq == [i \in 1..n |-> FMul(FSub(obs[i], m), FSub(obs[i], m))]
    IN IF n < 2 THEN NaN ELSE FSqrt(FDiv(SumTo(sq, n), Fin((n - 1) * SCALE)))

RollingStd(col, t, w, min_periods) ==
    LET obs == Rolling(col, t, w)
    IN IF Len(obs) < min_periods THEN NaN ELSE SampleStd(obs)

RollingSum(col, t, w, min_periods) ==
    LET obs == Rolling(col, t, w)
    IN IF Len(obs) < min_periods THEN NaN ELSE SumTo(obs, Len(obs))

RollingMean(col, t, w, min_periods) ==
    LET obs == Rolling(col, t, w)
    IN IF Len(obs) < min_periods THEN NaN ELSE NpMean(obs)

\* the smallest and the largest of obs[lo..hi], lo <= hi
RECURSIVE MinRange(_, _, _)
MinRange(obs, lo, hi) ==
    IF lo = hi THEN obs[lo]
    ELSE LET a == MinRange(obs, lo, (lo + hi) \div 2)
             b == MinRange(obs, (lo + hi) \div 2 + 1, hi)
         IN IF FGt(a, b) THEN b ELSE a

RECURSIVE MaxRange(_, _, _)
MaxRange(obs, lo, hi) ==
    IF lo = hi THEN obs[lo]
    ELSE LET a == MaxRange(obs, lo, (lo + hi) \div 2)
             b == MaxRange(obs, (lo + hi) \div 2 + 1, hi)
         IN IF FGt(b, a) THEN b ELSE a

RollingMin(col, t, w, min_periods) ==
    LET obs == Rolling(col, t, w)
    IN IF Len(obs) < min_periods \/ Len(obs) = 0 THEN NaN ELSE MinRange(obs, 1, Len(obs))

RollingMax(col, t, w, min_periods) ==
    LET obs == Rolling(col, t, w)
    IN IF Len(obs) < min_periods \/ Len(obs) = 0 THEN NaN ELSE MaxRange(obs, 1, Len(obs))

\* the rows lo..hi on which both x and y are valid, in order
RECURSIVE PairRows(_, _, _, _)
PairRows(x, y, lo, hi) ==
    IF hi < lo THEN <<>>
    ELSE IF lo = hi THEN (IF IsNaN(x[lo]) \/ IsNaN(y[lo]) THEN <<>> ELSE <<lo>>)
    ELSE PairRows(x, y, lo, (lo + hi) \div 2) \o PairRows(x, y, (lo + hi) \div 2 + 1, hi)

\* x.rolling(w, min_periods).corr(y)[t]: Pearson correlation over the complete pairs
RollingCorr(x, y, t, w, min_periods) ==
    LET rows == PairRows(x, y, WindowStart(t, w), WindowEnd(Len(x), t, w))
        n == Len(rows)
        xs == [i \in 1..n |-> x[rows[i]]]
        ys == [i \in 1..n |-> y[rows[i]]]
        mx == NpMean(xs)
        my == NpMean(ys)
        sxy == SumTo([i \in 1..n |-> FMul(FSub(xs[i], mx), FSub(ys[i], my))], n)
        sxx == SumTo([i \in 1..n |-> FMul(FSub(xs[i], mx), FSub(xs[i], mx))], n)
        syy == SumTo([i \in 1..n |-> FMul(FSub(ys[i], my), FSub(ys[i], my))], n)
    IN IF n < min_periods THEN NaN ELSE FDiv(sxy, FSqrt(FMul(sxx, syy)))

\* log_return = np.log(Close / Close.shift(1)), one row
LogReturn(df, t) == FLog(FDiv(df.Close[t], Shift(df.Close, t, 1)))

\* the column log_return up to row t
LogReturns(df, t) == [i \in 1..t |-> LogReturn(df, i)]

\* vol_{w}d = log_return.rolling(window=w, min_periods=w // 2).std() * sqrt(252)
Vol(df, t, w) ==
    FMul(RollingStd(LogReturns(df, Len(df.Close)), t, w, w \div 2),
         FSqrt(Fin(TRADING_DAYS * SCALE)))

\* vix_change = vix_close.pct_change(), one row
VixChange(df, t) == FSub(FDiv(df.vix_close[t], Shift(df.vix_close, t, 1)), Fin(SCALE))

\* add_traditional_features, row t of the columns it adds
TraditionalRow(df, t) ==
    [log_return |-> LogReturn(df, t),
     vol_21d |-> Vol(df, t, 21),
     vol_63d |-> Vol(df, t, 63),
     vol_252d |-> Vol(df, t, 252),
     dividend_yield_proxy |->
        FDiv(RollingSum([i \in 1..Len(df.Dividends) |-> FillNa0(df.Dividends[i])],
                        t, 252, 1),
             ReplaceZero(df.Close[t])),
     volume_ma_21d |-> RollingMean(df.Volume, t, 21, 1),
     high_low_range_pct |->
        FMul(FDiv(FSub(df.High[t], df.Low[t]), ReplaceZero(df.Close[t])),
             Fin(100 * SCALE))]

\* add_advanced_features, row t of the columns it adds
AdvancedRow(df, t) ==
    LET n == Len(df.Close)
        vix_min == RollingMin(df.vix_close, t, 252, 21)
        vix_max == RollingMax(df.vix_close, t, 252, 21)
        spread == ReplaceZero(FSub(vix_max, vix_min))
    IN [vix_jpm_corr_63d |->
            RollingCorr(LogReturns(df, n), [i \in 1..n |-> VixChange(df, i)], t, 63, 30),
        treasury_momentum_21d |->
            FSub(df.treasury_10y[t], Shift(df.treasury_10y, t, 21)),
        sentiment_proxy |->
            FSub(Fin(SCALE), FDiv(FSub(df.vix_close[t], vix_min), spread))]

\* add_all_features(df): the feature columns, one record per row
add_all_features(df) ==
    [t \in 1..Len(df.Close) |-> [traditional |-> TraditionalRow(df, t),
                                 advanced |-> AdvancedRow(df, t)]]

-----------------------------------------------------------------------------
(* what a call does to the caller's objects: the statements of a function, by their *)
(* effect on memory. An object is a block of memory with an identity; the array     *)
(* and table arguments are blocks 1..k, in the order of the parameters              *)

\* target = <an expression that builds a new object>: arithmetic on arrays, a ufunc,
\* np.where, boolean-mask indexing, a literal
New(target) ==
    [op |-> "new", target |-> target, source |-> "", body |-> <<>>, bind |-> <<>>]

\* target = <an expression that yields source's memory>: a plain assignment,
\* np.asarray of a float array, .values, a group of a groupby
Alias(target, source) ==
    [op |-> "alias", target |-> target, source |-> source, body |-> <<>>,
     bind |-> <<>>]

\* a write into the object target names: target[...] = ..., target += ...,
\* out=target, target.append(...)
Store(target) ==
    [op |-> "store", target |-> target, source |-> "", body |-> <<>>, bind |-> <<>>]

\* target = f(...): f's statements run on the objects bind passes for its parameters
Call(target, body, bind) ==
    [op |-> "call", target |-> target, source |-> "", body |-> body, bind |-> bind]

RECURSIVE Run(_, _, _)

\* one statement on machine m = [env: name -> block, written: blocks, next: fresh id]
Exec(st, m) ==
    CASE st.op = "new" ->
            [m EXCEPT !.env = (st.target :> m.next) @@ m.env, !.next = m.next + 1]
      [] st.op = "alias" ->
            [m EXCEPT !.env = (st.target :> m.env[st.source]) @@ m.env]
      [] st.op = "store" ->
            [m EXCEPT !.written = m.written \cup {m.env[st.target]}]
      [] OTHER ->
            LET inner == Run(st.body,
                             [env |-> [p \in DOMAIN st.bind |-> m.env[st.bind[p]]],
                              written |-> m.written, next |-> m.next],
                             Len(st.body))
            IN [env |-> (st.target :> inner.next) @@ m.env,
                written |-> inner.written,
                next |-> inner.next + 1]

\* the first n statements of body, in order
Run(body, m, n) == IF n = 0 THEN m ELSE Exec(body[n], Run(body, m, n - 1))

RECURSIVE Repeat(_, _)
Repeat(body, n) == IF n = 0 THEN <<>> ELSE Repeat(body, n - 1) \o body

\* simulate_gbm_paths; z is rebound to fresh draws when it is None
Prog_simulate_gbm_paths(z_given) ==
    [params |-> IF z_given THEN <<"z">> ELSE <<>>,
     body |-> (IF z_given THEN <<>> ELSE <<New("rng"), New("z")>>)
              \o <<New("drift"), New("diffusion"), New("result")>>,
     returns |-> {"result"}]

Prog_chooser_payoffs ==
    [params |-> <<"s_t1", "s_t2">>,
     body |-> <<New("is_call"), New("call_payoff"), New("put_payoff"),
                New("payoffs")>>,
     returns |-> {"is_call", "payoffs"}]

Prog_chooser_payoffs_proper ==
    [params |-> <<"s_t1", "s_t2">>,
     body |-> <<New("k_adj"), New("is_call"), New("call_payoff"), New("put_payoff"),
                New("payoffs")>>,
     returns |-> {"is_call", "payoffs"}]

\* faulty variant: err = y_pred; err -= y_true, which subtracts in the caller's array
Prog_compute_error_metrics_inplace ==
    [params |-> <<"y_true", "y_pred">>,
     body |-> <<Alias("y_true", "y_true"), Alias("y_pred", "y_pred"),
                Alias("err", "y_pred"), Store("err"), New("mae"), New("rmse"),
                New("mask"), New("mape"), New("result")>>,
     returns |-> {"result"}]

\* compute_error_metrics; np.asarray hands back a float array itself
Prog_compute_error_metrics ==
    [params |-> <<"y_true", "y_pred">>,
     body |-> <<Alias("y_true", "y_true"), Alias("y_pred", "y_pred"), New("err"),
                New("mae"), New("rmse"), New("mask"), New("mape"), New("result")>>,
     returns |-> {"result"}]

\* summarize_metrics_by_regime over a table of n_groups groups; rows is a list the
\* function made itself
Prog_summarize_metrics_by_regime(n_groups) ==
    [params |-> <<"df">>,
     body |-> <<New("rows")>>
              \o Repeat(<<Alias("sub", "df"), Alias("sub_true", "sub"),
                          Alias("sub_pred", "sub"),
                          Call("metrics", Prog_compute_error_metrics.body,
                               [y_true |-> "sub_true", y_pred |-> "sub_pred"]),
                          Store("rows")>>, n_groups)
              \o <<New("result")>>,
     returns |-> {"result"}]

\* the call's effect on the caller: the argument objects written to, and whether
\* every returned object is one the call built
Effects(prog) ==
    LET k == Len(prog.params)
        m == Run(prog.body,
                 [env |-> [name \in {prog.params[i] : i \in 1..k} |->
                              CHOOSE i \in 1..k : prog.params[i] = name],
                  written |-> {}, next |-> k + 1],
                 Len(prog.body))
    IN [written |-> {prog.params[i] : i \in {j \in 1..k : j \in m.written}},
        fresh |-> \A name \in prog.returns : m.env[name] > k]

\* what an argument object holds once something was written into it
Clobbered == <<"clobbered">>

\* the contents of the argument objects when the call is over
After(prog, args) ==
    LET eff == Effects(prog)
    IN [name \in {prog.params[i] : i \in 1..Len(prog.params)} |->
           IF name \in eff.written THEN Clobbered ELSE args[name]]

-----------------------------------------------------------------------------
(* the arguments callers pass, in 1/SCALE *)

\* longest array passed to the payoff functions
MaxLen == 2
\* longest series passed to compute_error_metrics
MaxSeries == 3
\* largest n_paths
MaxPaths == 2
\* most rows of a table passed to summarize_metrics_by_regime
MaxRows == 3
\* most price_chooser_mc invocations in flight at once
MaxCalls == 2
MaxDays == 3
MaxHistory == 254

Fins(S) == {Fin(n) : n \in S}

PricesT1 == Fins({9000, 9500, 10000, 10500, 11000})
PricesT2 == Fins({9000, 10000, 11000})
Strikes == Fins({10000})
Rates == Fins({0, 5})
Yields == Fins({0, 5})
Taus == Fins({0, 100})

\* market parameters of the pricer calls: a valid base case with zero drift, its
\* degenerate variants and one case per kind of invalid parameter
Market(s0, k, r, q, sigma, t1, t2) ==
    [s0 |-> Fin(s0), k |-> Fin(k), r |-> Fin(r), q |-> Fin(q), sigma |-> Fin(sigma),
     t1 |-> Fin(t1), t2 |-> Fin(t2)]

Markets ==
    { Market(10000, 10000, 5, 3, 20, 50, 100),
      Market(10000, 10000, 5, 0, 20, 50, 100),
      Market(10000, 10000, 0, 3, 20, 50, 100),
      Market(10000, 10000, 5, 3, 20, 100, 100),
      Market(10000, 10000, 5, 3, -20, 50, 100),
      Market(10000, 10000, 5, 3, 20, 100, 50),
      Market(10000, 0, 5, 3, 20, 50, 100),
      Market(0, 10000, 5, 3, 20, 50, 100) }

Seeds == {NoSeed, <<0>>, <<1>>}

\* generator states the OS entropy yields
OsEntropy == {2, 7}

PricerArgs ==
    { [s0 |-> m.s0, k |-> m.k, r |-> m.r, q |-> m.q, sigma |-> m.sigma,
       t1 |-> m.t1, t2 |-> m.t2, n_paths |-> n, seed |-> sd, use_proper_rule |-> u]
      : m \in Markets, n \in -1..MaxPaths, sd \in Seeds, u \in BOOLEAN }

Spots == Fins({9000, 10000, 11000})
Sigmas == Fins({0, 20})
Tenors == Fins({-50, 0, 50, 100})

\* metric series, in units of 1e-9: 0, 5e-9, eps, 1.1e-8, 1e-6
TrueVals == Fins({0, 5, 10, 11, 1000})
PredVals == Fins({0, 1000, 2000})

\* pre-drawn normals handed to simulate_gbm_paths, and no z at all
ZVals == Fins({-100, 0, 100})
ZArgs == {NoZ} \cup {SomeZ(arr) : arr \in UNION {[1..n -> ZVals] : n \in 0..MaxLen}}

VixVals == Fins({2000, 3000, 3500}) \cup {NaN}
Thresholds == Fins({2000, 3000})

TableRows ==
    [true : Fins({0, 1000}), pred : Fins({1000, 3000}),
     regime : {RegimeOrder[i] : i \in 1..Len(RegimeOrder)} \cup {MissingLabel}]

\* the trading days of the collection window, and the days FRED has observations
\* for: all of them, or all but the first
Days == 1..MaxDays
FredDateSets == {Days, Days \ {1}}

YahooOutcomes == {"ok", "no_dividends", "no_vix", "no_stock"}

YahooTable(dates) == [c \in {"Close"} |-> [d \in dates |-> StockClose(d)]]
VixTable(dates) == [c \in {"Close"} |-> [d \in dates |-> VixClose(d)]]

\* treasury tables handed to clean_and_align: none, a combined table with or without
\* DGS10, and a single-series table with the column "value"
TreasuryArgs ==
    {<<>>}
    \cup {<<[s \in got |-> [d \in dates |-> FredObservation(s, d)]]>> :
             got \in {{"DGS3MO", "DGS10"}, {"DGS3MO", "FEDFUNDS"}, FredSeries},
             dates \in FredDateSets}
    \cup {<<[c \in {"value"} |-> [d \in dates |-> FredObservation("DGS10", d)]]>> :
             dates \in FredDateSets}

\* the merged daily table handed to add_all_features: n rows in date order, prices and
\* rates that change from row to row, and a shock to every column of one row (none
\* when shock = 0)
FeatureTable(n, shock) ==
    LET jump(i, by) == IF i = shock THEN by ELSE 0
    IN [Close |-> [i \in 1..n |-> Fin(10000 + 500 * ((i * 3) % 7) + jump(i, 2500))],
        High |-> [i \in 1..n |->
                    Fin(10100 + 500 * ((i * 3) % 7) + 50 * (i % 3) + jump(i, 3000))],
        Low |-> [i \in 1..n |->
                    Fin(9800 + 500 * ((i * 3) % 7) - 50 * (i % 2) + jump(i, 2000))],
        Volume |-> [i \in 1..n |-> Fin(1000 + 100 * (i % 5) + jump(i, 700))],
        Dividends |-> [i \in 1..n |->
                    Fin((IF i % 10 = 0 THEN 50 ELSE 0) + jump(i, 30))],
        vix_close |-> [i \in 1..n |-> Fin(2000 + 200 * ((i * 5) % 11) + jump(i, 1300))],
        treasury_10y |-> [i \in 1..n |-> Fin(300 + 10 * (i % 6) + jump(i, 55))]]

\* the rows a caller reads: the first month and a half, and the rows around which the
\* 63-row and 252-row windows reach their minimum count and their full length
ReadRows ==
    {r \in 1..MaxHistory :
        r <= 32 \/ r \in 62..65 \/ r \in 125..128 \/ r >= MaxHistory - 3}

-----------------------------------------------------------------------------
(* the caller *)

NoCall == [op |-> "none", args |-> <<>>, out |-> <<>>]

Invocations == 1..MaxCalls

\* the arguments of the concurrent invocations: the valid base market
ConcArgs ==
    { [s0 |-> Fin(10000), k |-> Fin(10000), r |-> Fin(5), q |-> Fin(3),
       sigma |-> Fin(20), t1 |-> Fin(50), t2 |-> Fin(100), n_paths |-> MaxPaths,
       seed |-> sd, use_proper_rule |-> FALSE] : sd \in Seeds }

\* the frame of an invocation that has not started; overlapped records whether
\* another invocation took a step while this one was in flight
IdleFrame ==
    [pc |-> "idle", args |-> <<>>, entropy |-> 0, z1 |-> <<>>, z2 |-> <<>>,
     out |-> <<>>, overlapped |-> FALSE]

Init ==
    /\ pc = "idle"
    /\ last = NoCall
    /\ prev = NoCall
    /\ frames = [i \in Invocations |-> IdleFrame]
    /\ gens = [i \in Invocations |-> 0]
    /\ files = NoFiles

Finish(op, args, out) ==
    /\ pc' = "done"
    /\ last' = [op |-> op, args |-> args, out |-> out]

\* a finished call of a function that takes arrays or a table: `after` is what the
\* caller's argument objects hold now, `fresh` whether all it got back is new
FinishOn(op, args, out, prog) ==
    /\ pc' = "done"
    /\ last' = [op |-> op, args |-> args, out |-> out, after |-> After(prog, args),
                fresh |-> Effects(prog).fresh]

ChooserPayoffs ==
    /\ pc = "idle"
    /\ \E n \in 0..MaxLen, k \in Strikes :
         \E s_t1 \in [1..n -> PricesT1], s_t2 \in [1..n -> PricesT2] :
            FinishOn("chooser_payoffs", [s_t1 |-> s_t1, s_t2 |-> s_t2, k |-> k],
                     Ok(chooser_payoffs(s_t1, s_t2, k)), Prog_chooser_payoffs)
    /\ UNCHANGED <<prev, frames, gens, files>>

ChooserPayoffsProper ==
    /\ pc = "idle"
    /\ \E n \in 0..MaxLen, k \in Strikes, r \in Rates, q \in Yields, tau \in Taus :
         \E s_t1 \in [1..n -> PricesT1], s_t2 \in [1..n -> PricesT2] :
            FinishOn("chooser_payoffs_proper",
                     [s_t1 |-> s_t1, s_t2 |-> s_t2, k |-> k, r |-> r, q |-> q,
                      sigma |-> Fin(20), tau |-> tau],
                     Ok(chooser_payoffs_proper(s_t1, s_t2, k, r, q, Fin(20), tau)),
                     Prog_chooser_payoffs_proper)
    /\ UNCHANGED <<prev, frames, gens, files>>

\* a direct call of the simulator, with a scalar s0, with or without z
SimulateGbmPaths ==
    /\ pc = "idle"
    /\ \E s0 \in Strikes, r \in Rates, q \in Yields, sigma \in Sigmas,
          dt \in Fins({0, 50}), n_paths \in -1..MaxPaths, seed \in Seeds,
          z \in ZArgs, entropy \in OsEntropy :
            FinishOn("simulate_gbm_paths",
                     [s0 |-> s0, r |-> r, q |-> q, sigma |-> sigma, dt |-> dt,
                      n_paths |-> n_paths, seed |-> seed, z |-> z],
                     simulate_gbm_paths(<<s0>>, r, q, sigma, dt, n_paths, seed, z,
                                        entropy),
                     Prog_simulate_gbm_paths(z.given))
    /\ UNCHANGED <<prev, frames, gens, files>>

\* q and tau default to 0.0 when the caller leaves them out
RealizedProxyPv ==
    /\ pc = "idle"
    /\ \E s1 \in PricesT1, s2 \in PricesT2, k \in Strikes, r \in Rates, t2 \in Taus,
          u \in BOOLEAN, q \in Yields, tau \in Taus :
            Finish("realized_proxy_pv",
                   [s_t1_realized |-> s1, s_t2_realized |-> s2, k |-> k, r |-> r,
                    t2 |-> t2, use_proper_rule |-> u, q |-> q, tau |-> tau],
                   Ok(realized_proxy_pv(s1, s2, k, r, t2, u, q, tau)))
    /\ UNCHANGED <<prev, frames, gens, files>>

\* entropy is what the OS hands a generator created without a seed in this call
PriceChooserMC ==
    /\ pc = "idle"
    /\ \E a \in PricerArgs, entropy \in OsEntropy :
         Finish("price_chooser_mc", a, price_chooser_mc(a, entropy))
    /\ UNCHANGED <<prev, frames, gens, files>>

BsmCall ==
    /\ pc = "idle"
    /\ \E s \in Spots, k \in Strikes, r \in Rates, q \in Yields,
          sigma \in Sigmas, t \in Tenors :
            Finish("bsm_call",
                   [s |-> s, k |-> k, r |-> r, q |-> q, sigma |-> sigma, t |-> t],
                   bsm_call(s, k, r, q, sigma, t))
    /\ UNCHANGED <<prev, frames, gens, files>>

BsmPut ==
    /\ pc = "idle"
    /\ \E s \in Spots, k \in Strikes, r \in Rates, q \in Yields,
          sigma \in Sigmas, t \in Tenors :
            Finish("bsm_put",
                   [s |-> s, k |-> k, r |-> r, q |-> q, sigma |-> sigma, t |-> t],
                   bsm_put(s, k, r, q, sigma, t))
    /\ UNCHANGED <<prev, frames, gens, files>>

RubinsteinChooser ==
    /\ pc = "idle"
    /\ \E s \in Spots, k \in Strikes, r \in Rates, q \in Yields,
          sigma \in Sigmas, t1 \in Fins({0, 50}), t2 \in Fins({0, 100}) :
            Finish("rubinstein_chooser",
                   [s |-> s, k |-> k, r |-> r, q |-> q, sigma |-> sigma,
                    t1 |-> t1, t2 |-> t2],
                   rubinstein_chooser(s, k, r, q, sigma, t1, t2))
    /\ UNCHANGED <<prev, frames, gens, files>>

ComputeErrorMetrics ==
    /\ pc = "idle"
    /\ \E n \in 0..MaxSeries :
         \E y_true \in [1..n -> TrueVals], y_pred \in [1..n -> PredVals] :
            FinishOn("compute_error_metrics", [y_true |-> y_true, y_pred |-> y_pred],
                     Ok(compute_error_metrics(y_true, y_pred)),
                     Prog_compute_error_metrics)
    /\ UNCHANGED <<prev, frames, gens, files>>

\* called with a threshold (args.threshold = <<th>>) or without one (<<>>)
VixRegimeLabel ==
    /\ pc = "idle"
    /\ \E v \in VixVals :
         \/ \E th \in Thresholds :
               Finish("vix_regime_label", [vix_value |-> v, threshold |-> <<th>>],
                      Ok(vix_regime_label(v, th)))
         \/ Finish("vix_regime_label", [vix_value |-> v, threshold |-> <<>>],
                   Ok(vix_regime_label_default(v)))
    /\ UNCHANGED <<prev, frames, gens, files>>

SummarizeMetricsByRegime ==
    /\ pc = "idle"
    /\ \E n \in 0..MaxRows :
         \E df \in [1..n -> TableRows] :
            FinishOn("summarize_metrics_by_regime", [df |-> df],
                     summarize_metrics_by_regime(df),
                     Prog_summarize_metrics_by_regime(Len(GroupKeys(df))))
    /\ UNCHANGED <<prev, frames, gens, files>>

\* the caller drops the result
\* python scripts/data_collection/collect_all.py: api_key is whether FRED_API_KEY is
\* set, got the series FRED returns data for
CollectAll ==
    /\ pc = "idle"
    /\ \E outcome \in YahooOutcomes, api_key \in BOOLEAN, got \in SUBSET FredSeries,
          fred_dates \in FredDateSets :
         LET done == collect_all(files, outcome, Days, api_key, got, fred_dates)
         IN /\ files' = done.fs
            /\ Finish("collect_all",
                      [outcome |-> outcome, api_key |-> api_key, got |-> got,
                       fred_dates |-> fred_dates],
                      Ok(done.code))
    /\ UNCHANGED <<prev, frames, gens>>

\* python src/preprocess.py: main() runs the pipeline on the files present, saves the
\* processed table and returns the exit code
PreprocessMain ==
    /\ pc = "idle"
    /\ LET result == run_pipeline(files)
       IN /\ files' = IF result.err = "none"
                      THEN WriteFile(files, ProcessedFile, result.val)
                      ELSE files
          /\ pc' = "done"
          /\ last' = [op |-> "preprocess_main", args |-> <<>>, out |-> result,
                      code |-> PreprocessExitCode(result)]
    /\ UNCHANGED <<prev, frames, gens>>

\* a direct call of clean_and_align with a data dict
CleanAndAlign ==
    /\ pc = "idle"
    /\ \E treasury \in TreasuryArgs, vix_dates \in FredDateSets :
         Finish("clean_and_align",
                [treasury |-> treasury, vix_dates |-> vix_dates],
                clean_and_align([stock |-> YahooTable(Days), vix |-> VixTable(vix_dates),
                                 dividends |-> <<>>, treasury |-> treasury]))
    /\ UNCHANGED <<prev, frames, gens, files>>

\* add_all_features on a table of MaxHistory rows, of which the caller reads row `row`;
\* the shocked row, if any, is that row, the next one or the last one
AddAllFeatures ==
    /\ pc = "idle"
    /\ \E row \in ReadRows :
         \E shock \in {0} \cup ({row, row + 1, MaxHistory} \cap 1..MaxHistory) :
            Finish("add_all_features",
                   [n |-> MaxHistory, shock |-> shock, row |-> row],
                   Ok(add_all_features(FeatureTable(MaxHistory, shock))[row]))
    /\ UNCHANGED <<prev, frames, gens, files>>

Return ==
    /\ pc = "done"
    /\ pc' = "idle"
    /\ last' = NoCall
    /\ UNCHANGED <<prev, frames, gens, files>>

\* the caller keeps a pricer result to compare a later one with
Remember ==
    /\ pc = "done"
    /\ last.op = "price_chooser_mc"
    /\ pc' = "idle"
    /\ prev' = last
    /\ last' = NoCall
    /\ UNCHANGED <<frames, gens, files>>

InFlight(i) == frames[i].pc \in {"created", "drew1", "drew2"}

\* the frames after invocation i moved to f: every other invocation in flight has
\* been overlapped
Stepped(i, f) ==
    [j \in Invocations |->
        IF j = i THEN f
        ELSE IF InFlight(j) THEN [frames[j] EXCEPT !.overlapped = TRUE]
        ELSE frames[j]]

\* faulty variant: one generator object, shared by all invocations
GeneratorOfShared(i) == 1

\* the generator object invocation i uses: the one it created itself
GeneratorOf(i) == i

\* rng = np.random.default_rng(seed); entropy is read from the OS only for seed None
CreateGenerator(i) ==
    /\ frames[i].pc = "idle"
    /\ \E a \in ConcArgs :
         \E entropy \in (IF a.seed = NoSeed THEN OsEntropy ELSE {0}) :
            /\ gens' = [gens EXCEPT ![GeneratorOf(i)] = default_rng(a.seed, entropy)]
            /\ frames' = Stepped(i, [IdleFrame EXCEPT !.pc = "created", !.args = a,
                                                      !.entropy = entropy])
    /\ UNCHANGED <<pc, last, prev, files>>

\* z1 = rng.standard_normal(n_paths)
DrawZ1(i) ==
    /\ frames[i].pc = "created"
    /\ LET d == Draw(gens[GeneratorOf(i)], frames[i].args.n_paths)
       IN /\ gens' = [gens EXCEPT ![GeneratorOf(i)] = d.rng]
          /\ frames' = Stepped(i, [frames[i] EXCEPT !.pc = "drew1", !.z1 = d.z])
    /\ UNCHANGED <<pc, last, prev, files>>

\* z2 = rng.standard_normal(n_paths)
DrawZ2(i) ==
    /\ frames[i].pc = "drew1"
    /\ LET d == Draw(gens[GeneratorOf(i)], frames[i].args.n_paths)
       IN /\ gens' = [gens EXCEPT ![GeneratorOf(i)] = d.rng]
          /\ frames' = Stepped(i, [frames[i] EXCEPT !.pc = "drew2", !.z2 = d.z])
    /\ UNCHANGED <<pc, last, prev, files>>

\* the rest of the body, which reads the frame's own z1 and z2 only, and the return
ReturnResult(i) ==
    /\ frames[i].pc = "drew2"
    /\ frames' = [frames EXCEPT ![i].pc = "returned",
                                ![i].out = Ok(PricerBody(frames[i].args, frames[i].z1,
                                                         frames[i].z2))]
    /\ UNCHANGED <<pc, last, prev, gens, files>>

\* the caller takes the result; the frame and its generator are gone
Collect(i) ==
    /\ frames[i].pc = "returned"
    /\ frames' = [frames EXCEPT ![i] = IdleFrame]
    /\ gens' = [gens EXCEPT ![GeneratorOf(i)] = 0]
    /\ UNCHANGED <<pc, last, prev, files>>

NextConcurrent ==
    \E i \in Invocations :
        CreateGenerator(i) \/ DrawZ1(i) \/ DrawZ2(i) \/ ReturnResult(i) \/ Collect(i)

NextPayoff ==
    ChooserPayoffs \/ ChooserPayoffsProper \/ RealizedProxyPv \/ PriceChooserMC \/ Return
NextMC == PriceChooserMC \/ Remember \/ Return
NextSim == SimulateGbmPaths \/ Return
NextPricer == SimulateGbmPaths \/ PriceChooserMC \/ Return
NextArrays ==
    \/ SimulateGbmPaths
    \/ ChooserPayoffs
    \/ ChooserPayoffsProper
    \/ ComputeErrorMetrics
    \/ SummarizeMetricsByRegime
    \/ Return
NextAnalytic == BsmCall \/ BsmPut \/ RubinsteinChooser \/ Return
NextMetrics == ComputeErrorMetrics \/ Return
NextRegime == VixRegimeLabel \/ SummarizeMetricsByRegime \/ Return
NextPipeline == CollectAll \/ PreprocessMain \/ CleanAndAlign \/ Return
NextFeatures == AddAllFeatures \/ Return

Next ==
    \/ NextPayoff
    \/ NextMC
    \/ NextSim
    \/ NextPricer
    \/ NextConcurrent
    \/ NextAnalytic
    \/ NextMetrics
    \/ NextRegime
    \/ NextPipeline
    \/ NextFeatures

Spec == Init /\ [][Next]_vars
SpecPayoff == Init /\ [][NextPayoff]_vars
SpecMC == Init /\ [][NextMC]_vars
SpecSim == Init /\ [][NextSim]_vars
SpecPricer == Init /\ [][NextPricer]_vars
SpecArrays == Init /\ [][NextArrays]_vars
SpecConcurrent == Init /\ [][NextConcurrent]_vars
SpecAnalytic == Init /\ [][NextAnalytic]_vars
SpecMetrics == Init /\ [][NextMetrics]_vars
SpecRegime == Init /\ [][NextRegime]_vars
SpecPipeline == Init /\ [][NextPipeline]_vars
SpecFeatures == Init /\ [][NextFeatures]_vars

-----------------------------------------------------------------------------
(* properties *)

Max0(n) == IF n > 0 THEN n ELSE 0

RECURSIVE SumOver(_, _)
SumOver(I, f) ==
    IF I = {} THEN 0
    ELSE LET i == CHOOSE x \in I : TRUE IN f[i] + SumOver(I \ {i}, f)

IsPricerResult == last.op = "price_chooser_mc" /\ last.out.err = "none"

\* C1: under the naive rule every path is 'call' exactly when s_t1[i] > k, so a path
\* with s_t1[i] = k is 'put'; in chooser_payoffs and in the pricer that uses it
C1_NaiveRule ==
    /\ last.op = "chooser_payoffs" =>
          /\ Len(last.out.val.choices) = Len(last.args.s_t1)
          /\ \A i \in 1..Len(last.args.s_t1) :
                last.out.val.choices[i] <=> (last.args.s_t1[i].v > last.args.k.v)
    /\ (IsPricerResult /\ ~last.args.use_proper_rule) =>
          \A i \in 1..Len(last.out.val.s_t1) :
             last.out.val.choices[i] <=> (last.out.val.s_t1[i].v > last.args.k.v)

\* a batch holding a tie, classified 'put', next to a path above the strike, 'call'
C1_Witness ==
    /\ last.op = "chooser_payoffs"
    /\ \E i, j \in 1..Len(last.args.s_t1) :
          /\ last.args.s_t1[i] = last.args.k
          /\ ~last.out.val.choices[i]
          /\ last.args.s_t1[j].v > last.args.k.v
          /\ last.out.val.choices[j]

\* C2: under both policies the payoff of a path is max(s_t2 - k, 0) when its choice
\* is 'call' and max(k - s_t2, 0) when it is 'put', never the other side's payoff
C2_HardBranch ==
    last.op \in {"chooser_payoffs", "chooser_payoffs_proper"} =>
        /\ Len(last.out.val.payoffs) = Len(last.args.s_t2)
        /\ \A i \in 1..Len(last.args.s_t2) :
              last.out.val.payoffs[i] =
                 Fin(IF last.out.val.choices[i]
                     THEN Max0(last.args.s_t2[i].v - last.args.k.v)
                     ELSE Max0(last.args.k.v - last.args.s_t2[i].v))

\* a path that chose 'call' and finished below the strike is paid 0, although the
\* put side would have paid
C2_Witness ==
    /\ last.op = "chooser_payoffs_proper"
    /\ \E i \in 1..Len(last.args.s_t2) :
          /\ last.out.val.choices[i]
          /\ last.args.s_t2[i].v < last.args.k.v
          /\ last.out.val.payoffs[i] = Fin(0)

\* k * exp(-(r - q) * tau) on the integers
C3_Threshold(k, r, q, tau) == RDiv(k * ExpFix(RDiv(-(r - q) * tau, SCALE)), SCALE)

\* C3: under the parity rule a path is 'call' exactly when
\* s_t1[i] > k*exp(-(r-q)*tau), a path at the threshold being 'put'; the pricer with
\* use_proper_rule applies it with tau = t2 - t1
C3_ParityRule ==
    /\ last.op = "chooser_payoffs_proper" =>
          \A i \in 1..Len(last.args.s_t1) :
             last.out.val.choices[i] <=>
                (last.args.s_t1[i].v >
                    C3_Threshold(last.args.k.v, last.args.r.v, last.args.q.v,
                                 last.args.tau.v))
    /\ (IsPricerResult /\ last.args.use_proper_rule) =>
          \A i \in 1..Len(last.out.val.s_t1) :
             last.out.val.choices[i] <=>
                (last.out.val.s_t1[i].v >
                    C3_Threshold(last.args.k.v, last.args.r.v, last.args.q.v,
                                 last.args.t2.v - last.args.t1.v))

\* a path exactly at a threshold that differs from the strike, classified 'put'
C3_Witness ==
    /\ last.op = "chooser_payoffs_proper"
    /\ \E i \in 1..Len(last.args.s_t1) :
          /\ last.args.s_t1[i].v =
                C3_Threshold(last.args.k.v, last.args.r.v, last.args.q.v,
                             last.args.tau.v)
          /\ last.args.s_t1[i] # last.args.k
          /\ ~last.out.val.choices[i]

InvalidParams(a) ==
    \/ a.sigma.v < 0
    \/ a.n_paths <= 0
    \/ a.t2.v < a.t1.v
    \/ a.k.v <= 0
    \/ a.s0.v <= 0

SameSeededCall ==
    /\ pc = "done"
    /\ last.op = "price_chooser_mc"
    /\ prev.op = "price_chooser_mc"
    /\ last.args = prev.args
    /\ last.args.seed # NoSeed

\* C4: a pricer call with the seed and the parameters of an earlier one returns the
\* same result in every field, whatever calls were made in between
C4_SeedDeterminism == SameSeededCall => last.out = prev.out

\* a seeded call with valid parameters that simulated paths is repeated
C4_Witness ==
    /\ SameSeededCall
    /\ ~InvalidParams(last.args)
    /\ last.out.err = "none"
    /\ Len(last.out.val.s_t2) = MaxPaths
    /\ IsFin(last.out.val.price)

\* C5: a pricer call with sigma < 0, n_paths <= 0, t2 < t1, k <= 0 or s0 <= 0 ends
\* in an error and returns no result
C5_InvalidRejected ==
    (last.op = "price_chooser_mc" /\ InvalidParams(last.args)) =>
        last.out.err # "none"

\* C6: rubinstein_chooser called with sigma = 0, t1 = 0 or t2 = 0 ends in an error
\* or returns a finite price, never NaN or an infinity
C6_SingularityFlagged ==
    ( /\ last.op = "rubinstein_chooser"
      /\ \/ last.args.sigma = Fin(0)
         \/ last.args.t1 = Fin(0)
         \/ last.args.t2 = Fin(0) ) =>
        (last.out.err # "none" \/ IsFin(last.out.val))

\* C7: for t <= 0 bsm_call returns max(s - k, 0) and bsm_put max(k - s, 0), whatever
\* r, q and sigma are (sigma = 0 included)
C7_IntrinsicAtExpiry ==
    /\ (last.op = "bsm_call" /\ last.args.t.v <= 0) =>
          last.out = Ok(Fin(Max0(last.args.s.v - last.args.k.v)))
    /\ (last.op = "bsm_put" /\ last.args.t.v <= 0) =>
          last.out = Ok(Fin(Max0(last.args.k.v - last.args.s.v)))

\* an at-the-money call priced at expiry with zero volatility
C7_Witness ==
    /\ last.op = "bsm_call"
    /\ last.args.t = Fin(0)
    /\ last.args.sigma = Fin(0)
    /\ last.args.s = last.args.k
    /\ last.args.r # last.args.q
    /\ last.out = Ok(Fin(0))

C8_Kept == {i \in 1..Len(last.args.y_true) : Abs(last.args.y_true[i].v) > EPS}

C8_MapeOfKept ==
    LET yt == last.args.y_true
        yp == last.args.y_pred
        ratio == [i \in C8_Kept |->
                     RDiv(Abs(yp[i].v - yt[i].v) * SCALE, Abs(yt[i].v))]
    IN /\ IsNaN(last.out.val.mape) <=> (C8_Kept = {})
       /\ C8_Kept # {} =>
             last.out.val.mape =
                Fin(RDiv(SumOver(C8_Kept, ratio), Cardinality(C8_Kept)))

\* C8 as amended: mape is the mean of |err|/|y_true| over exactly the indices with
\* |y_true| > eps and NaN iff there is none; mae and rmse are computed over all
\* indices and are finite for a non-empty series
C8_MapeFilter ==
    last.op = "compute_error_metrics" =>
        LET yt == last.args.y_true
            yp == last.args.y_pred
            n == Len(yt)
            abserr == [i \in 1..n |-> Abs(yp[i].v - yt[i].v)]
            sqerr == [i \in 1..n |-> RDiv(abserr[i] * abserr[i], SCALE)]
        IN /\ C8_MapeOfKept
           /\ n >= 1 =>
                 /\ last.out.val.mae = Fin(RDiv(SumOver(1..n, abserr), n))
                 /\ last.out.val.rmse =
                       Fin(ISqrt(RDiv(SumOver(1..n, sqerr), n) * SCALE))

\* a series with a denominator equal to eps, one below it and one that is kept
C8_Witness ==
    /\ last.op = "compute_error_metrics"
    /\ Cardinality(C8_Kept) = 1
    /\ \E i, j \in 1..Len(last.args.y_true) :
          /\ last.args.y_true[i] = Fin(EPS)
          /\ last.args.y_true[j] = Fin(5)
          /\ last.args.y_pred[i] # last.args.y_true[i]
    /\ IsFin(last.out.val.mape)
    /\ last.out.val.mape # Fin(0)

\* C8 as stated: as above, with mae and rmse finite for every input
C8_AsStated ==
    last.op = "compute_error_metrics" =>
        /\ C8_MapeOfKept
        /\ IsFin(last.out.val.mae)
        /\ IsFin(last.out.val.rmse)

\* C9: the label is 'high_vol' exactly when vix_value > threshold and 'normal_vol'
\* otherwise; the threshold is 30 when none is passed
C9_RegimeLabel ==
    last.op = "vix_regime_label" =>
        LET th == IF last.args.threshold = <<>> THEN DefaultVixThreshold
                  ELSE last.args.threshold[1].v
        IN /\ last.out.val \in {"high_vol", "normal_vol"}
           /\ (last.out.val = "high_vol") <=>
                 (IsFin(last.args.vix_value) /\ last.args.vix_value.v > th)

\* a VIX level equal to the default threshold, labelled 'normal_vol'
C9_Witness ==
    /\ last.op = "vix_regime_label"
    /\ last.args.threshold = <<>>
    /\ last.args.vix_value = Fin(DefaultVixThreshold)
    /\ last.out.val = "normal_vol"

\* C10: for every table summarize_metrics_by_regime returns one row per distinct
\* regime label, in ascending order of the label
C10_OneRowPerRegimeSorted ==
    last.op = "summarize_metrics_by_regime" =>
        /\ last.out.err = "none"
        /\ LET rows == last.out.val
               df == last.args.df
               labels == {df[j].regime : j \in 1..Len(df)} \ {MissingLabel}
           IN /\ {rows[i].regime : i \in 1..Len(rows)} = labels
              /\ Len(rows) = Cardinality(labels)
              /\ \A i \in 1..(Len(rows) - 1) :
                    LabelRank(rows[i].regime) < LabelRank(rows[i + 1].regime)

C11_RowsOf(df, l) ==
    LET InGroup(row) == row.regime = l
    IN SelectSeq(df, InGroup)

\* C11: in a returned summary the count of a row is the number of input rows with
\* that row's label, its mae, rmse and mape are compute_error_metrics of exactly
\* those rows' (true, pred) values, and the counts add up to the number of input
\* rows when no input row lacks a label
C11_CountsAndMetrics ==
    (last.op = "summarize_metrics_by_regime" /\ last.out.err = "none") =>
        LET rows == last.out.val
            df == last.args.df
        IN /\ \A i \in 1..Len(rows) :
                 LET sub == C11_RowsOf(df, rows[i].regime)
                     m == compute_error_metrics([j \in 1..Len(sub) |-> sub[j].true],
                                                [j \in 1..Len(sub) |-> sub[j].pred])
                 IN /\ rows[i].count =
                          Cardinality({j \in 1..Len(df) : df[j].regime = rows[i].regime})
                    /\ rows[i].mae = m.mae
                    /\ rows[i].rmse = m.rmse
                    /\ rows[i].mape = m.mape
           /\ (\A j \in 1..Len(df) : df[j].regime # MissingLabel) =>
                 SumOver(1..Len(rows), [i \in 1..Len(rows) |-> rows[i].count]) = Len(df)

\* a fully labelled table whose two regimes are interleaved: one row of the summary
\* counts two input rows, the other one, and their metrics differ
C11_Witness ==
    /\ last.op = "summarize_metrics_by_regime"
    /\ last.out.err = "none"
    /\ Len(last.out.val) = 2
    /\ \A j \in 1..Len(last.args.df) : last.args.df[j].regime # MissingLabel
    /\ last.out.val[1].count = 2
    /\ last.out.val[2].count = 1
    /\ last.args.df[1].regime = last.args.df[3].regime
    /\ last.out.val[1].mae # last.out.val[2].mae
    /\ IsFin(last.out.val[1].mape)

\* C12: realized_proxy_pv returns exp(-r*t2) times the payoff the batch rule of the
\* same policy (chooser_payoffs, or chooser_payoffs_proper with the same r, q, tau)
\* gives the one-element batch ([s1], [s2]); a price equal to the threshold is 'put'
C12_ReusesRule ==
    last.op = "realized_proxy_pv" =>
        LET a == last.args
            batch == IF a.use_proper_rule
                     THEN chooser_payoffs_proper(<<a.s_t1_realized>>, <<a.s_t2_realized>>,
                                                 a.k, a.r, a.q, Fin(0), a.tau)
                     ELSE chooser_payoffs(<<a.s_t1_realized>>, <<a.s_t2_realized>>, a.k)
            threshold == IF a.use_proper_rule
                         THEN C3_Threshold(a.k.v, a.r.v, a.q.v, a.tau.v)
                         ELSE a.k.v
            discount == ExpFix(RDiv(-a.r.v * a.t2.v, SCALE))
        IN /\ last.out = Ok(FMul(Fin(discount), batch.payoffs[1]))
           /\ a.s_t1_realized.v = threshold =>
                 last.out.val =
                    Fin(RDiv(discount * Max0(a.k.v - a.s_t2_realized.v), SCALE))

\* an observed price exactly at a parity threshold below the strike: the put side is
\* paid, discounted
C12_Witness ==
    /\ last.op = "realized_proxy_pv"
    /\ last.args.use_proper_rule
    /\ last.args.s_t1_realized.v =
          C3_Threshold(last.args.k.v, last.args.r.v, last.args.q.v, last.args.tau.v)
    /\ last.args.s_t1_realized.v < last.args.k.v
    /\ last.args.s_t2_realized.v < last.args.k.v
    /\ last.args.t2.v > 0
    /\ last.args.r.v > 0
    /\ last.out.val.v > 0
    /\ last.out.val.v < last.args.k.v - last.args.s_t2_realized.v

\* C13: every result price_chooser_mc returns, under either rule, holds price, se,
\* mean_payoff, std_payoff and call_ratio together
C13_SeWithPrice ==
    IsPricerResult =>
        {"price", "se", "mean_payoff", "std_payoff", "call_ratio"}
            \subseteq DOMAIN last.out.val

\* a valid call whose paths paid differently: the price comes with a positive se
C13_Witness ==
    /\ IsPricerResult
    /\ ~InvalidParams(last.args)
    /\ last.args.use_proper_rule
    /\ IsFin(last.out.val.price)
    /\ IsFin(last.out.val.se)
    /\ last.out.val.se.v > 0

\* the generator states a call's one generator can start from
C14_Generators(a) ==
    IF a.seed = NoSeed THEN 0..(RngMod - 1) ELSE {SeedState(a.seed[1])}

\* C14: the period-1 prices of a call come from the first n_paths normals of one
\* generator (the seed's, when a seed is given) and its period-2 prices from the next
\* n_paths normals of the same generator, nothing else being drawn
C14_SingleStream ==
    IsPricerResult =>
        LET a == last.args
            n == a.n_paths
        IN \E g \in C14_Generators(a) :
              LET stream == standard_normal(g, 2 * n)
                  z1 == SubSeq(stream, 1, n)
                  z2 == SubSeq(stream, n + 1, 2 * n)
                  s_t1 == simulate_gbm_paths(<<a.s0>>, a.r, a.q, a.sigma, a.t1, n,
                                             NoSeed, SomeZ(z1), g).val
                  s_t2 == simulate_gbm_paths(s_t1, a.r, a.q, a.sigma,
                                             FSub(a.t2, a.t1), n, NoSeed, SomeZ(z2),
                                             g).val
              IN /\ last.out.val.s_t1 = s_t1
                 /\ last.out.val.s_t2 = s_t2

\* a seeded valid call whose first normal moved path 1 down and whose second moved
\* path 2 up, path 2 moving again, by another amount, in period 2
C14_Witness ==
    /\ IsPricerResult
    /\ ~InvalidParams(last.args)
    /\ last.args.seed # NoSeed
    /\ last.args.n_paths >= 2
    /\ last.args.t1.v < last.args.t2.v
    /\ last.out.val.s_t1[1].v < last.args.s0.v
    /\ last.out.val.s_t1[2].v > last.args.s0.v
    /\ last.out.val.s_t2[2].v > last.out.val.s_t1[2].v
    /\ last.out.val.s_t2[2].v - last.out.val.s_t1[2].v
          # last.out.val.s_t1[2].v - last.args.s0.v

\* one GBM step of one path
GbmStep(s, r, q, sigma, dt, z) ==
    FMul(s, FExp(FAdd(FMul(FSub(FSub(r, q), FMul(HALF, FMul(sigma, sigma))), dt),
                      FMul(FMul(sigma, FSqrt(dt)), z))))

\* C15: for every path i of a call, s_t1[i] is s0 evolved over t1 with the i-th
\* normal of the first batch, s_t2[i] is s_t1[i] evolved over t2 - t1 with the i-th
\* normal of the second batch, the choice of path i is taken on s_t1[i] and its
\* payoff on s_t2[i]
C15_Chaining ==
    IsPricerResult =>
        LET a == last.args
            o == last.out.val
            n == a.n_paths
            tau == FSub(a.t2, a.t1)
            threshold == IF a.use_proper_rule
                         THEN FMul(a.k, FExp(FMul(FNeg(FSub(a.r, a.q)), tau)))
                         ELSE a.k
        IN /\ Len(o.s_t1) = n /\ Len(o.s_t2) = n
           /\ Len(o.choices) = n /\ Len(o.payoffs) = n
           /\ \E g \in C14_Generators(a) :
                 \A i \in 1..n :
                    /\ o.s_t1[i] = GbmStep(a.s0, a.r, a.q, a.sigma, a.t1,
                                            Fin(ZTable[Advance(g, i) + 1]))
                    /\ o.s_t2[i] = GbmStep(o.s_t1[i], a.r, a.q, a.sigma, tau,
                                            Fin(ZTable[Advance(g, n + i) + 1]))
           /\ \A i \in 1..n :
                 /\ o.choices[i] <=> FGt(o.s_t1[i], threshold)
                 /\ o.payoffs[i] =
                       IF o.choices[i] THEN NpMaximum(FSub(o.s_t2[i], a.k), Fin(0))
                       ELSE NpMaximum(FSub(a.k, o.s_t2[i]), Fin(0))

\* a valid call with one path that chose 'call' above the initial spot and one that
\* chose 'put' below it, each paid on its own final price
C15_Witness ==
    /\ IsPricerResult
    /\ ~InvalidParams(last.args)
    /\ last.args.n_paths >= 2
    /\ last.args.t1.v < last.args.t2.v
    /\ \E i, j \in 1..last.args.n_paths :
          /\ last.out.val.choices[i]
          /\ ~last.out.val.choices[j]
          /\ last.out.val.s_t1[i].v > last.args.s0.v
          /\ last.out.val.s_t1[j].v < last.args.s0.v
          /\ last.out.val.s_t2[i] # last.out.val.s_t1[i]
          /\ last.out.val.payoffs[i].v > 0
          /\ last.out.val.payoffs[j].v > 0

\* C16: simulate_gbm_paths called with z returns, without an error, one price per
\* element of z, in z's order, each s0 stepped with that element; the result is
\* determined by s0, r, q, sigma, dt and z, whatever seed and n_paths are
C16_ZOverridesSeed ==
    (last.op = "simulate_gbm_paths" /\ last.args.z.given) =>
        LET a == last.args
        IN last.out = Ok([i \in 1..Len(a.z.arr) |->
                             GbmStep(a.s0, a.r, a.q, a.sigma, a.dt, a.z.arr[i])])

\* z of two different normals passed next to a seed and a negative n_paths: two
\* different prices come back, in z's order, and nothing is raised
C16_Witness ==
    /\ last.op = "simulate_gbm_paths"
    /\ last.args.z.given
    /\ Len(last.args.z.arr) = 2
    /\ last.args.z.arr[1].v > last.args.z.arr[2].v
    /\ last.args.seed # NoSeed
    /\ last.args.n_paths < 0
    /\ last.out.err = "none"
    /\ last.out.val[1].v > last.out.val[2].v

C17_Valid(a) == a.s.v > 0 /\ a.k.v > 0 /\ a.sigma.v > 0 /\ a.t.v > 0

\* s*exp(-q*t) - k*exp(-r*t)
C17_Forward(a) ==
    FSub(FMul(a.s, FExp(FMul(FNeg(a.q), a.t))), FMul(a.k, FExp(FMul(FNeg(a.r), a.t))))

\* C17: for s > 0, k > 0, sigma > 0 and t > 0 the call price less the put price of the
\* same arguments is s*exp(-q*t) - k*exp(-r*t), up to the rounding of the four
\* products involved (half a unit of the last digit each)
C17_PutCallParity ==
    /\ (last.op = "bsm_call" /\ C17_Valid(last.args)) =>
          LET a == last.args
              put == bsm_put(a.s, a.k, a.r, a.q, a.sigma, a.t)
          IN /\ last.out.err = "none" /\ put.err = "none"
             /\ IsFin(last.out.val) /\ IsFin(put.val)
             /\ Abs(last.out.val.v - put.val.v - C17_Forward(a).v) <= 2
    /\ (last.op = "bsm_put" /\ C17_Valid(last.args)) =>
          LET a == last.args
              call == bsm_call(a.s, a.k, a.r, a.q, a.sigma, a.t)
          IN /\ last.out.err = "none" /\ call.err = "none"
             /\ IsFin(last.out.val) /\ IsFin(call.val)
             /\ Abs(call.val.v - last.out.val.v - C17_Forward(a).v) <= 2

\* an out-of-the-money put with r # q, both discount factors below 1: the put is
\* worth something and the call is worth more by the discounted forward
C17_Witness ==
    /\ last.op = "bsm_put"
    /\ C17_Valid(last.args)
    /\ last.args.s.v > last.args.k.v
    /\ last.args.r.v > 0
    /\ last.args.q.v = 0
    /\ last.out.val.v > 0
    /\ C17_Forward(last.args).v > last.args.s.v - last.args.k.v

\* C19: whatever the interleaving of the invocations' steps, an invocation returns
\* what price_chooser_mc returns for its arguments when it runs alone
C19_NoGeneratorSharing ==
    \A i \in Invocations :
        frames[i].pc = "returned" =>
            frames[i].out = price_chooser_mc(frames[i].args, frames[i].entropy)

\* two invocations with the same seed, each overlapped by steps of the other, have
\* both returned, with the same price
C19_Witness ==
    \E i, j \in Invocations :
        /\ i # j
        /\ frames[i].pc = "returned" /\ frames[j].pc = "returned"
        /\ frames[i].overlapped /\ frames[j].overlapped
        /\ frames[i].args.seed # NoSeed
        /\ frames[i].args.seed = frames[j].args.seed
        /\ IsFin(frames[i].out.val.price)
        /\ frames[i].out = frames[j].out

C20_Functions ==
    {"simulate_gbm_paths", "chooser_payoffs", "chooser_payoffs_proper",
     "compute_error_metrics", "summarize_metrics_by_regime"}

\* C20: when simulate_gbm_paths, chooser_payoffs, chooser_payoffs_proper,
\* compute_error_metrics or summarize_metrics_by_regime is over, every array or
\* table it was passed holds what it held at the call, and nothing it returned is
\* one of those objects
C20_ArgumentsUntouched ==
    last.op \in C20_Functions =>
        /\ \A name \in DOMAIN last.after : last.after[name] = last.args[name]
        /\ last.fresh

\* a table of two groups went through the loop, which handed views of it to
\* compute_error_metrics twice and appended to its own list of rows
C20_Witness ==
    /\ last.op = "summarize_metrics_by_regime"
    /\ last.out.err = "none"
    /\ Len(last.out.val) = 2
    /\ DOMAIN last.after = {"df"}
    /\ last.after.df = last.args.df
    /\ Len(last.args.df) >= 2

\* the present values discount * payoffs[i] of a finite result, as integers
C21_Pv(o, d) == [i \in 1..Len(o.payoffs) |-> RDiv(d * o.payoffs[i].v, SCALE)]

\* C21: in every pricer result discount = exp(-r*t2); price is the mean over the
\* n_paths paths of discount*payoffs[i], so that it equals discount*mean_payoff up to
\* rounding and equals mean_payoff exactly when r = 0 or t2 = 0; se is the population
\* standard deviation of discount*payoffs[i] divided by sqrt(n_paths). Without paths,
\* or with a NaN payoff, the mean and the standard error are NaN.
C21_DiscountedMean ==
    IsPricerResult =>
        LET o == last.out.val
            a == last.args
            n == a.n_paths
            d == ExpFix(RDiv(-(a.r.v * a.t2.v), SCALE))
            finite == \A i \in 1..Len(o.payoffs) : IsFin(o.payoffs[i])
            pv == C21_Pv(o, d)
            m == RDiv(SumOver(1..n, pv), n)
            sq == [i \in 1..n |-> RDiv((pv[i] - m) * (pv[i] - m), SCALE)]
            sd == ISqrt(RDiv(SumOver(1..n, sq), n) * SCALE)
        IN /\ o.discount = Fin(d)
           /\ Len(o.payoffs) = n
           /\ n >= 1 /\ finite =>
                /\ o.price = Fin(m)
                /\ Abs(o.price.v - RDiv(d * o.mean_payoff.v, SCALE)) <= 2
                /\ (a.r.v = 0 \/ a.t2.v = 0) => o.price = o.mean_payoff
                /\ o.se = Fin(RDiv(sd * SCALE, ISqrt(n * SCALE * SCALE)))
           /\ n = 0 \/ ~finite => IsNaN(o.price) /\ IsNaN(o.se)

\* a discounted two-path result with a positive standard error
C21_Witness ==
    /\ IsPricerResult
    /\ last.args.n_paths >= 2
    /\ last.args.r.v > 0
    /\ IsFin(last.out.val.price)
    /\ IsFin(last.out.val.mean_payoff)
    /\ last.out.val.price.v > 0
    /\ last.out.val.price.v < last.out.val.mean_payoff.v
    /\ IsFin(last.out.val.se)
    /\ last.out.val.se.v > 0

\* C22: in a pricer result for n_paths >= 1, choices, s_t1, s_t2 and payoffs all have
\* n_paths entries, entry i of each belonging to path i (under the naive rule
\* choices[i] is s_t1[i] > k); call_ratio is the number of call paths divided by
\* n_paths, lies in [0, 1], is 1 exactly when every path chose call and 0 exactly when
\* every path chose put.
C22_CallRatio ==
    IsPricerResult /\ last.args.n_paths >= 1 =>
        LET o == last.out.val
            n == last.args.n_paths
            calls == Cardinality({i \in 1..Len(o.choices) : o.choices[i]})
        IN /\ Len(o.choices) = n
           /\ Len(o.s_t1) = n
           /\ Len(o.s_t2) = n
           /\ Len(o.payoffs) = n
           /\ ~last.args.use_proper_rule =>
                \A i \in 1..n : o.choices[i] <=> FGt(o.s_t1[i], last.args.k)
           /\ o.call_ratio = Fin(RDiv(calls * SCALE, n))
           /\ o.call_ratio.v >= 0
           /\ o.call_ratio.v <= SCALE
           /\ o.call_ratio.v = SCALE <=> calls = n
           /\ o.call_ratio.v = 0 <=> calls = 0

\* a result in which one path chose call and another chose put
C22_Witness ==
    /\ IsPricerResult
    /\ last.args.n_paths >= 2
    /\ \E i, j \in 1..Len(last.out.val.choices) :
          last.out.val.choices[i] /\ ~last.out.val.choices[j]
    /\ last.out.val.call_ratio.v > 0
    /\ last.out.val.call_ratio.v < SCALE

\* C23: simulate_gbm_paths with dt = 0 returns s0 for every path, whatever r, q, sigma
\* and the normals are; so price_chooser_mc with t1 = t2 returns s_t2[i] = s_t1[i] for
\* every path, and under the naive rule each payoff is |s_t1[i] - k|.
C23_ZeroStep ==
    /\ last.op = "simulate_gbm_paths" /\ last.out.err = "none" /\ last.args.dt.v = 0 =>
          \A i \in 1..Len(last.out.val) : last.out.val[i] = last.args.s0
    /\ IsPricerResult /\ last.args.t1 = last.args.t2 =>
          LET o == last.out.val
          IN /\ o.s_t2 = o.s_t1
             /\ ~last.args.use_proper_rule =>
                  \A i \in 1..Len(o.payoffs) :
                      o.payoffs[i] = Fin(Abs(o.s_t1[i].v - last.args.k.v))

\* a pricer call with t1 = t2 whose paths moved away from the strike in period 1
C23_Witness ==
    /\ IsPricerResult
    /\ last.args.t1 = last.args.t2
    /\ ~last.args.use_proper_rule
    /\ Len(last.out.val.payoffs) >= 2
    /\ \E i, j \in 1..Len(last.out.val.payoffs) :
          /\ last.out.val.choices[i] /\ last.out.val.payoffs[i].v > 0
          /\ ~last.out.val.choices[j] /\ last.out.val.payoffs[j].v > 0

\* 0 <= payoffs[i] <= |s_t2[i] - k| on every path, and payoffs[i] = 0 where the chosen
\* side finishes out of the money
C24_PathBounds(choices, payoffs, s_t2, k) ==
    \A i \in 1..Len(payoffs) :
        /\ FLe(Fin(0), payoffs[i])
        /\ FLe(payoffs[i], FAbs(FSub(s_t2[i], k)))
        /\ choices[i] /\ FLe(s_t2[i], k) => payoffs[i] = Fin(0)
        /\ ~choices[i] /\ FLe(k, s_t2[i]) => payoffs[i] = Fin(0)

\* C24: for every path and both decision policies 0 <= payoff <= |s_t2 - k|, with
\* payoff 0 when the chosen side finishes out of the money; hence the value returned by
\* realized_proxy_pv is >= 0 and the price and mean_payoff returned by price_chooser_mc
\* are >= 0.
C24_PayoffBounds ==
    /\ last.op \in {"chooser_payoffs", "chooser_payoffs_proper"} =>
          C24_PathBounds(last.out.val.choices, last.out.val.payoffs,
                         last.args.s_t2, last.args.k)
    /\ last.op = "realized_proxy_pv" => FLe(Fin(0), last.out.val)
    /\ IsPricerResult =>
          /\ C24_PathBounds(last.out.val.choices, last.out.val.payoffs,
                            last.out.val.s_t2, last.args.k)
          /\ FLe(Fin(0), last.out.val.price)
          /\ FLe(Fin(0), last.out.val.mean_payoff)

\* C25: when (r - q) * tau = 0 the parity threshold is k, so chooser_payoffs_proper
\* returns what chooser_payoffs returns on the same s_t1, s_t2, k; and realized_proxy_pv
\* with use_proper_rule = True and tau = 0.0 returns what it returns with
\* use_proper_rule = False, for every s1, s2, k, r, q, t2.
C25_CollapseToNaive ==
    /\ /\ last.op = "chooser_payoffs_proper"
       /\ last.args.r = last.args.q \/ last.args.tau.v = 0
       => /\ ParityThreshold(last.args.k, last.args.r, last.args.q, last.args.tau)
               = last.args.k
          /\ last.out.val = chooser_payoffs(last.args.s_t1, last.args.s_t2, last.args.k)
    /\ /\ last.op = "realized_proxy_pv"
       /\ last.args.use_proper_rule
       /\ last.args.tau.v = 0
       => last.out.val = realized_proxy_pv(last.args.s_t1_realized,
                                           last.args.s_t2_realized, last.args.k,
                                           last.args.r, last.args.t2, FALSE,
                                           last.args.q, last.args.tau)

\* a parity-rule call with r = q > 0 and tau > 0 in which a path at the strike chose put
\* and a path above it chose call
C25_Witness ==
    /\ last.op = "chooser_payoffs_proper"
    /\ last.args.r = last.args.q
    /\ last.args.r.v > 0
    /\ last.args.tau.v > 0
    /\ \E i, j \in 1..Len(last.args.s_t1) :
          /\ last.args.s_t1[i] = last.args.k
          /\ ~last.out.val.choices[i]
          /\ last.out.val.choices[j]

\* C26: for every s, k and t <= 0, bsm_call less bsm_put of the same arguments is
\* s - k; at most one of the two is non-zero and both are >= 0.
C26_ParityAtExpiry ==
    last.op \in {"bsm_call", "bsm_put"} /\ last.args.t.v <= 0 =>
        LET a == last.args
            call == IF last.op = "bsm_call" THEN last.out
                    ELSE bsm_call(a.s, a.k, a.r, a.q, a.sigma, a.t)
            put == IF last.op = "bsm_put" THEN last.out
                   ELSE bsm_put(a.s, a.k, a.r, a.q, a.sigma, a.t)
        IN /\ call.err = "none" /\ put.err = "none"
           /\ IsFin(call.val) /\ IsFin(put.val)
           /\ call.val.v - put.val.v = a.s.v - a.k.v
           /\ call.val.v = 0 \/ put.val.v = 0
           /\ call.val.v >= 0
           /\ put.val.v >= 0

\* a put priced past expiry with the spot below the strike: the put is worth k - s and
\* the call nothing
C26_Witness ==
    /\ last.op = "bsm_put"
    /\ last.args.t.v < 0
    /\ last.args.s.v < last.args.k.v
    /\ last.out.err = "none"
    /\ last.out.val.v = last.args.k.v - last.args.s.v
    /\ last.out.val.v > 0

C27_Equal == last.args.y_pred = last.args.y_true

C28_EmptyTableSummary ==
    last.op = "summarize_metrics_by_regime" /\ Len(last.args.df) = 0 =>
        last.out = Ok(<<>>)

\* C29: when the FRED treasury file is absent (FRED_API_KEY not set, or fewer than two
\* series collected) and the Yahoo files are there, run_pipeline still completes, with
\* treasury_10y equal to the default 0.04 on every row, and main() returns 0.
C29_DefaultTreasury ==
    /\ last.op = "preprocess_main"
    /\ StockFile \in DOMAIN files
    /\ VixFile \in DOMAIN files
    /\ CombinedFile \notin DOMAIN files
    => /\ last.out.err = "none"
       /\ \A i \in 1..Len(last.out.val.treasury_10y) :
              last.out.val.treasury_10y[i] = Fin(TreasuryDefault)
       /\ last.code = 0

\* the first t rows of a table
Prefix(df, t) == [c \in DOMAIN df |-> SubSeq(df[c], 1, t)]

\* C30: no look-ahead in add_all_features: the features of row t (log_return,
\* vol_21d/63d/252d, dividend_yield_proxy, volume_ma_21d, high_low_range_pct,
\* vix_jpm_corr_63d, treasury_momentum_21d, sentiment_proxy) depend only on the rows
\* with date <= t: they are the features of row t of the table cut off after row t,
\* and of every table that differs only in a later row.
C30_NoLookAhead ==
    last.op = "add_all_features" =>
        LET a == last.args
            df == FeatureTable(a.n, a.shock)
        IN /\ last.out.val = add_all_features(Prefix(df, a.row))[a.row]
           /\ a.shock > a.row =>
                last.out.val = add_all_features(FeatureTable(a.n, 0))[a.row]

\* a row past the first 252 whose ten features all have a value, in a table whose next
\* row is shocked: the shock leaves that row's features alone and changes the next
\* row's
C30_Witness ==
    /\ last.op = "add_all_features"
    /\ last.args.row > TRADING_DAYS
    /\ last.args.shock = last.args.row + 1
    /\ \A f \in DOMAIN last.out.val.traditional : IsFin(last.out.val.traditional[f])
    /\ \A f \in DOMAIN last.out.val.advanced : IsFin(last.out.val.advanced[f])
    /\ add_all_features(FeatureTable(last.args.n, last.args.shock))[last.args.shock]
         # add_all_features(FeatureTable(last.args.n, 0))[last.args.shock]


=============================================================================
